---- MODULE Spec2Model ----
(***************************************************************************)
(* Verification model of the mock API server's request-resolution core:    *)
(* the Scenario Store (package state), the rule matcher (handler/matcher.go)*)
(* and the per-request orchestration in MockHandler.handleRequest.          *)
(*                                                                         *)
(* Strings that the code slices, concatenates or compares by prefix        *)
(* (scenario names, partition values, store keys, extracted values) are     *)
(* sequences of one-character strings, so that "s" \o ":" \o "p" is built   *)
(* and taken apart exactly as the Go code does.  Strings that are only      *)
(* compared for equality (step names, selector names) are TLA+ strings.     *)
(***************************************************************************)
EXTENDS Integers, Sequences, FiniteSets, Bags, TLC

VARIABLES
    steps,      \* ScenarioStore.steps: map from key to current step
    calls,      \* the mutating store calls made so far, in order
    ret,        \* what the most recent store call returned
    g,          \* per goroutine: where it is in its store call, the call, its result
    mu,         \* ScenarioStore.mu: the reader/writer lock
    acquired,   \* the goroutines in the order in which they acquired mu
    mValues,    \* matcher input: the extracted values (selector name -> string)
    mRules,     \* matcher input: the endpoint's rules, in order
    mResult,    \* what MatchRules and matchRule returned for them
    req,        \* per in-flight HTTP request: the locals of handleRequest
    served,     \* the HTTP exchanges completed so far, in order of completion
    pArgs,      \* the arguments of the call of a pure function under study
    pResult,    \* what that call returned
    recorder,   \* the Recorder: entries, maxEntries, head, count, nextID
    recLog,     \* the IDs recorded since the last Clear, oldest first
    recRet,     \* what the most recent Recorder call returned
    cm,         \* the ConfigManager: config, loadedAt, runtimeEndpoints
    heap,       \* the backing arrays of the endpoint slices, by address
    cmRet,      \* what the most recent ConfigManager call was and returned
    cmHeld,     \* the slices GetRuntimeEndpoints handed out, as they were then
    cmOps,      \* the number of ConfigManager calls made
    reloader,   \* per reloading goroutine: where it is in reloadConfig
    wmu,        \* Watcher.mu: the goroutine that holds it, "" when free
    cfgFile     \* what LoadConfig would make of the configuration file now

apiVars == <<calls, ret>>
concVars == <<g, mu, acquired>>
matchVars == <<mValues, mRules, mResult>>
httpVars == <<req, served>>
pureVars == <<pArgs, pResult>>
recVars == <<recorder, recLog, recRet>>
cmVars == <<cm, heap, cmRet, cmHeld, cmOps>>
reloadVars == <<reloader, wmu, cfgFile>>
vars == <<steps, apiVars, concVars, matchVars, httpVars, pureVars, recVars, cmVars,
          reloadVars>>

\* what the call-by-call store driver leaves alone
notApi ==
    <<concVars, matchVars, httpVars, pureVars, recVars, cmVars, reloadVars>>
\* what the goroutines leave alone
notConc ==
    <<apiVars, matchVars, httpVars, pureVars, recVars, cmVars, reloadVars>>
\* what the matcher leaves alone
notMatch ==
    <<steps, apiVars, concVars, httpVars, pureVars, recVars, cmVars, reloadVars>>
\* what the HTTP handlers leave alone
notHttp ==
    <<apiVars, concVars, matchVars, pureVars, recVars, cmVars, reloadVars>>
\* what the Recorder's calls leave alone
notRec ==
    <<steps, apiVars, concVars, matchVars, httpVars, pureVars, cmVars, reloadVars>>
\* what the ConfigManager's calls leave alone
notCm ==
    <<steps, apiVars, concVars, matchVars, httpVars, pureVars, recVars, reloadVars>>
\* what a reload leaves alone, besides the ConfigManager
notReload == <<steps, apiVars, concVars, matchVars, httpVars, pureVars, recVars>>
\* what the call of a pure function leaves alone
notPure ==
    <<steps, apiVars, concVars, matchVars, httpVars, recVars, cmVars, reloadVars>>

(***************************** bounds **************************************)
MaxCalls == 3
MaxRules == 2
MaxServed == 4
MaxGroups == 2
MaxEntries == 3
MaxSelectors == 2
MaxRecords == 6
Capacity == 2
MaxCmOps == 5
MaxReloads == 3

(************************** input universes ********************************)
Scenarios == { <<"s">>, <<"s", "X">>, <<"s", ":", "p">> }
Partitions == { <<>>, <<"q">>, <<"p", ":", "q">> }
StepNames == { "x", "y" }

(*************************** Scenario Store ********************************)
defaultStep == "idle"

EmptySteps == [k \in {} |-> defaultStep]

buildKey(scenario, partitionValue) == scenario \o <<":">> \o partitionValue

\* index of the first ':' of key, 0 when there is none
FirstColon(key) ==
    IF \E i \in 1..Len(key) : key[i] = ":"
    THEN CHOOSE i \in 1..Len(key) :
            key[i] = ":" /\ \A j \in 1..(i - 1) : key[j] # ":"
    ELSE 0

splitKey(key) ==
    LET i == FirstColon(key)
    IN  IF i = 0 THEN <<key, <<>>>>
        ELSE <<SubSeq(key, 1, i - 1), SubSeq(key, i + 1, Len(key))>>

GetStepOf(st, scenario, partitionValue) ==
    LET key == buildKey(scenario, partitionValue)
    IN  IF key \in DOMAIN st THEN st[key] ELSE defaultStep

SetStepOf(st, scenario, partitionValue, step) ==
    LET key == buildKey(scenario, partitionValue)
    IN  [k \in (DOMAIN st) \cup {key} |-> IF k = key THEN step ELSE st[k]]

HasPrefix(k, prefix) ==
    Len(k) >= Len(prefix) /\ SubSeq(k, 1, Len(prefix)) = prefix

ResetScenarioOf(st, scenario) ==
    LET prefix == scenario \o <<":">>
    IN  [k \in {k \in DOMAIN st : ~HasPrefix(k, prefix)} |-> st[k]]

ResetPartitionOf(st, scenario, partitionValue) ==
    LET key == buildKey(scenario, partitionValue)
    IN  [k \in (DOMAIN st) \ {key} |-> st[k]]

EntryOf(st, k) ==
    [Scenario |-> splitKey(k)[1], PartitionKey |-> splitKey(k)[2],
     CurrentStep |-> st[k]]

\* the returned slice has no specified order: it is modelled as the bag of
\* its elements
ListOf(st) ==
    LET es == {EntryOf(st, k) : k \in DOMAIN st}
    IN  [e \in es |-> Cardinality({k \in DOMAIN st : EntryOf(st, k) = e})]

Void == [kind |-> "void"]

(******************* the store driven call by call *************************)
Goroutines == {"g1", "g2"}

NoCall == [op |-> "none", scenario |-> <<>>, partition |-> <<>>, step |-> ""]

Unlocked == [writer |-> FALSE, readers |-> 0]

ApiIdle ==
    /\ calls = <<>>
    /\ ret = Void

ConcIdle ==
    /\ g = [t \in Goroutines |-> [pc |-> "ready", call |-> NoCall, ret |-> Void]]
    /\ mu = Unlocked
    /\ acquired = <<>>

Pending == [done |-> FALSE, rule |-> 0, each |-> <<>>]

MatchIdle ==
    /\ mValues = <<>>
    /\ mRules = <<>>
    /\ mResult = Pending

\* the goroutine of the HTTP server that runs the handler: requests are
\* handled one after another
Slots == {"r1"}

NoRequest ==
    [pc |-> "idle", ep |-> 0, headers |-> <<>>, values |-> <<>>,
     partitionValue |-> <<>>, currentStep |-> "", matchedRule |-> 0]

HttpIdle ==
    /\ req = [r \in Slots |-> NoRequest]
    /\ served = <<>>

NotCalled == [done |-> FALSE]

PureIdle ==
    /\ pArgs = <<>>
    /\ pResult = NotCalled

\* recorder.New(maxEntries): every slot nil (0), nothing recorded
NewRecorder(maxEntries) ==
    [entries |-> [i \in 1..maxEntries |-> 0], maxEntries |-> maxEntries,
     head |-> 0, count |-> 0, nextID |-> 0]

RecIdle ==
    /\ recorder = NewRecorder(Capacity)
    /\ recLog = <<>>
    /\ recRet = Void

\* a slice of endpoints: the address of its backing array (0 for nil) and
\* its length; its capacity is the length of the array
NilSlice == [arr |-> 0, len |-> 0]

Reloaders == {"w1", "w2"}

\* NewConfigManager(path): no configuration (0 for nil), no runtime endpoint
CmIdle ==
    /\ cm = [config |-> 0, loadedAt |-> 0, runtimeEndpoints |-> NilSlice]
    /\ heap = <<>>
    /\ cmRet = [op |-> "none"]
    /\ cmHeld = <<>>
    /\ cmOps = 0
    /\ reloader = [t \in Reloaders |-> [pc |-> "idle", loaded |-> 0]]
    /\ wmu = ""
    /\ cfgFile = 0

Init ==
    /\ steps = EmptySteps
    /\ ApiIdle
    /\ ConcIdle
    /\ MatchIdle
    /\ HttpIdle
    /\ RecIdle
    /\ CmIdle
    /\ PureIdle

GetStep(scenario, partitionValue) ==
    /\ ret' = [kind |-> "step", step |-> GetStepOf(steps, scenario, partitionValue)]
    /\ UNCHANGED <<steps, calls, notApi>>

SetStep(scenario, partitionValue, step) ==
    /\ Len(calls) < MaxCalls
    /\ steps' = SetStepOf(steps, scenario, partitionValue, step)
    /\ calls' = Append(calls, [op |-> "SetStep", scenario |-> scenario,
                               partition |-> partitionValue, step |-> step])
    /\ ret' = Void
    /\ UNCHANGED notApi

ResetScenario(scenario) ==
    /\ Len(calls) < MaxCalls
    /\ steps' = ResetScenarioOf(steps, scenario)
    /\ calls' = Append(calls, [op |-> "ResetScenario", scenario |-> scenario,
                               partition |-> <<>>, step |-> ""])
    /\ ret' = Void
    /\ UNCHANGED notApi

ResetPartition(scenario, partitionValue) ==
    /\ Len(calls) < MaxCalls
    /\ steps' = ResetPartitionOf(steps, scenario, partitionValue)
    /\ calls' = Append(calls, [op |-> "ResetPartition", scenario |-> scenario,
                               partition |-> partitionValue, step |-> ""])
    /\ ret' = Void
    /\ UNCHANGED notApi

List ==
    /\ ret' = [kind |-> "list", entries |-> ListOf(steps)]
    /\ UNCHANGED <<steps, calls, notApi>>

Next ==
    \/ \E s \in Scenarios, p \in Partitions : GetStep(s, p)
    \/ \E s \in Scenarios, p \in Partitions, x \in StepNames : SetStep(s, p, x)
    \/ \E s \in Scenarios : ResetScenario(s)
    \/ \E s \in Scenarios, p \in Partitions : ResetPartition(s, p)
    \/ List

Spec == Init /\ [][Next]_vars

(************** the store called from concurrent goroutines ***************)
SetStepCalls ==
    {[op |-> "SetStep", scenario |-> s, partition |-> p, step |-> x] :
        s \in Scenarios, p \in Partitions, x \in StepNames}

ResetCalls ==
    {[op |-> "ResetScenario", scenario |-> s, partition |-> <<>>, step |-> ""] :
        s \in Scenarios}
    \cup {[op |-> "ResetPartition", scenario |-> s, partition |-> p, step |-> ""] :
        s \in Scenarios, p \in Partitions}

ReadCalls ==
    {[op |-> "GetStep", scenario |-> s, partition |-> p, step |-> ""] :
        s \in Scenarios, p \in Partitions}
    \cup {[op |-> "List", scenario |-> <<>>, partition |-> <<>>, step |-> ""]}

StoreCalls == SetStepCalls \cup ResetCalls \cup ReadCalls

\* a faulty variant: SetStep takes the read lock
LockKindSetStepShared(op) ==
    IF op \in {"GetStep", "List", "SetStep"} THEN "r" ELSE "w"

\* which side of the RWMutex a method takes: RLock ("r") or Lock ("w")
LockKind(op) ==
    IF op \in {"GetStep", "List"} THEN "r" ELSE "w"

\* the body of a method, run while the lock is held
ApplyCall(st, c) ==
    CASE c.op = "SetStep" -> SetStepOf(st, c.scenario, c.partition, c.step)
      [] c.op = "ResetScenario" -> ResetScenarioOf(st, c.scenario)
      [] c.op = "ResetPartition" -> ResetPartitionOf(st, c.scenario, c.partition)
      [] OTHER -> st

ResultOf(st, c) ==
    CASE c.op = "GetStep" ->
            [kind |-> "step", step |-> GetStepOf(st, c.scenario, c.partition)]
      [] c.op = "List" -> [kind |-> "list", entries |-> ListOf(st)]
      [] OTHER -> Void

\* a store that earlier calls have filled
PresetStore ==
    SetStepOf(SetStepOf(EmptySteps, <<"s">>, <<"q">>, "x"), <<"s", "X">>, <<>>, "y")

InitConc ==
    /\ steps \in {EmptySteps, PresetStore}
    /\ ApiIdle
    /\ ConcIdle
    /\ MatchIdle
    /\ HttpIdle
    /\ RecIdle
    /\ CmIdle
    /\ PureIdle

\* a goroutine calls a store method
Go(t, c) ==
    /\ g[t].pc = "ready"
    /\ g' = [g EXCEPT ![t] = [pc |-> "lock", call |-> c, ret |-> Void]]
    /\ UNCHANGED <<steps, mu, acquired, notConc>>

\* s.mu.Lock() / s.mu.RLock() returns
Acquire(t) ==
    /\ g[t].pc = "lock"
    /\ IF LockKind(g[t].call.op) = "w"
       THEN /\ ~mu.writer
            /\ mu.readers = 0
            /\ mu' = [mu EXCEPT !.writer = TRUE]
       ELSE /\ ~mu.writer
            /\ mu' = [mu EXCEPT !.readers = @ + 1]
    /\ acquired' = Append(acquired, t)
    /\ g' = [g EXCEPT ![t].pc = "body"]
    /\ UNCHANGED <<steps, notConc>>

\* the method body, between lock and deferred unlock
Body(t) ==
    /\ g[t].pc = "body"
    /\ steps' = ApplyCall(steps, g[t].call)
    /\ g' = [g EXCEPT ![t].pc = "unlock", ![t].ret = ResultOf(steps, g[t].call)]
    /\ UNCHANGED <<mu, acquired, notConc>>

\* the deferred s.mu.Unlock() / s.mu.RUnlock(); the method returns
Release(t) ==
    /\ g[t].pc = "unlock"
    /\ mu' = IF LockKind(g[t].call.op) = "w"
             THEN [mu EXCEPT !.writer = FALSE]
             ELSE [mu EXCEPT !.readers = @ - 1]
    /\ g' = [g EXCEPT ![t].pc = "done"]
    /\ UNCHANGED <<steps, acquired, notConc>>

NextConc ==
    \/ \E t \in Goroutines, c \in StoreCalls : Go(t, c)
    \/ \E t \in Goroutines : Acquire(t)
    \/ \E t \in Goroutines : Body(t)
    \/ \E t \in Goroutines : Release(t)

SpecConc == InitConc /\ [][NextConc]_vars

(****************************** Rule Matcher *******************************)
\* strings.ToLower on the match-type and logic names that occur
ToLower(s) ==
    CASE s = "Prefix" -> "prefix"
      [] s = "AND" -> "and"
      [] s = "Or" -> "or"
      [] s = "Header" -> "header"
      [] s = "Body" -> "body"
      [] s = "GET" -> "get"
      [] s = "POST" -> "post"
      [] s = "Go" -> "go"
      [] OTHER -> s

HasSuffix(v, suffix) ==
    Len(v) >= Len(suffix)
    /\ SubSeq(v, Len(v) - Len(suffix) + 1, Len(v)) = suffix

Contains(v, sub) ==
    \E i \in 1..(Len(v) - Len(sub) + 1) : SubSeq(v, i, i + Len(sub) - 1) = sub

\* strings.TrimSpace, on strings whose only white space is " "
RECURSIVE TrimLeft(_)
TrimLeft(s) ==
    IF s # <<>> /\ Head(s) = " " THEN TrimLeft(Tail(s)) ELSE s

RECURSIVE TrimRight(_)
TrimRight(s) ==
    IF s # <<>> /\ s[Len(s)] = " " THEN TrimRight(SubSeq(s, 1, Len(s) - 1)) ELSE s

TrimSpace(s) == TrimRight(TrimLeft(s))

\* strings.Split(s, sep) for a one-character sep: the segments between the
\* occurrences of sep, one more than there are occurrences
RECURSIVE SplitFrom(_, _, _, _)
SplitFrom(s, sep, i, current) ==
    IF i > Len(s) THEN <<current>>
    ELSE IF s[i] = sep THEN <<current>> \o SplitFrom(s, sep, i + 1, <<>>)
         ELSE SplitFrom(s, sep, i + 1, Append(current, s[i]))

Split(s, sep) == SplitFrom(s, sep, 1, <<>>)

DigitChars == <<"0", "1", "2", "3", "4", "5", "6", "7", "8", "9">>

IsDigit(c) == \E i \in 1..Len(DigitChars) : DigitChars[i] = c

DigitValue(c) == (CHOOSE i \in 1..Len(DigitChars) : DigitChars[i] = c) - 1

\* the first fifteen digits of the integers 2^53 - 2 .. 2^53 + 7, written as
\* one element of a string, so that <<BigDigits, "3">> is the numeral
\* 9007199254740993 = 2^53 + 1
BigDigits == "900719925474099"

\* the numerals among the modelled inputs: a run of decimal digits, or
\* BigDigits followed by one digit.  Every other modelled input is a string
\* strconv.ParseFloat rejects (empty, letters, inner or outer spaces).
IsNumeral(s) ==
    /\ s # <<>>
    /\ \/ \A i \in 1..Len(s) : IsDigit(s[i])
       \/ Len(s) = 2 /\ s[1] = BigDigits /\ IsDigit(s[2])

RECURSIVE Decimal(_)
Decimal(s) ==
    IF s = <<>> THEN 0
    ELSE Decimal(SubSeq(s, 1, Len(s) - 1)) * Len(DigitChars) + DigitValue(s[Len(s)])

\* the number a numeral denotes: n itself, or (2^53 - 2) + n when big = 1
NumberOf(s) ==
    IF s[1] = BigDigits THEN [big |-> 1, n |-> DigitValue(s[2])]
    ELSE [big |-> 0, n |-> Decimal(s)]

\* the float64 nearest to (2^53 - 2) + n, ties to the even significand, as an
\* offset from 2^53 - 2: below 2^53 every integer is a float64, from 2^53 on
\* only the even ones are
NearestFloat64(n) ==
    CASE n \in {0, 1, 2} -> n
      [] n = 3 -> 2
      [] n = 4 -> 4
      [] n \in {5, 6, 7} -> 6
      [] n = 8 -> 8
      [] OTHER -> 10

\* strconv.ParseFloat(s, 64): the float64 nearest to the number s denotes
ParseFloat(s) ==
    IF ~IsNumeral(s) THEN [err |-> TRUE, val |-> [big |-> 0, n |-> 0]]
    ELSE LET x == NumberOf(s)
         IN  [err |-> FALSE,
              val |-> IF x.big = 1 THEN [big |-> 1, n |-> NearestFloat64(x.n)]
                      ELSE x]

\* a < b and a <= b on the numbers above (small integers are exact float64)
Less(a, b) == a.big < b.big \/ (a.big = b.big /\ a.n < b.n)

LessEq(a, b) == Less(a, b) \/ a = b

\* rightInclusive := rangeStr[len(rangeStr)-1] == ']' and the check of maxOK
UpperOK(rangeStr, num, maxVal) ==
    IF rangeStr[Len(rangeStr)] = "]" THEN LessEq(num, maxVal) ELSE Less(num, maxVal)

\* leftInclusive := rangeStr[0] == '[' and the check of minOK
LowerOK(rangeStr, num, minVal) ==
    IF rangeStr[1] = "[" THEN LessEq(minVal, num) ELSE Less(minVal, num)

\* len(rangeStr) counts BigDigits as one character; every modelled range
\* that contains it has five elements or more, as it has in bytes
matchRange(targetValue, rangeStr) ==
    LET num == ParseFloat(targetValue)
        trimmed == TrimSpace(rangeStr)
        inner == SubSeq(trimmed, 2, Len(trimmed) - 1)
        parts == Split(inner, ",")
        minVal == ParseFloat(TrimSpace(parts[1]))
        maxVal == ParseFloat(TrimSpace(parts[2]))
    IN  IF num.err THEN FALSE
        ELSE IF Len(trimmed) < 5 THEN FALSE
        ELSE IF Len(parts) # 2 THEN FALSE
        ELSE IF minVal.err THEN FALSE
        ELSE IF maxVal.err THEN FALSE
        ELSE LowerOK(trimmed, num.val, minVal.val) /\ UpperOK(trimmed, num.val, maxVal.val)

\* regexp.MatchString(pattern, s) on the patterns among the modelled inputs:
\* "(" does not compile, "^" followed by literal characters matches the
\* strings that start with them, literal characters the strings that
\* contain them
RegexpMatchString(pattern, v) ==
    IF pattern = <<"(">> THEN [err |-> TRUE, matched |-> FALSE]
    ELSE IF pattern # <<>> /\ Head(pattern) = "^"
         THEN [err |-> FALSE, matched |-> HasPrefix(v, Tail(pattern))]
         ELSE [err |-> FALSE, matched |-> Contains(v, pattern)]

matchCondition(targetValue, cond) ==
    LET mt == ToLower(cond.MatchType)
    IN  CASE mt = "exact" -> targetValue = cond.Value
          [] mt = "prefix" -> HasPrefix(targetValue, cond.Value)
          [] mt = "suffix" -> HasSuffix(targetValue, cond.Value)
          [] mt = "contains" -> Contains(targetValue, cond.Value)
          [] mt = "regex" ->
                LET m == RegexpMatchString(cond.Value, targetValue)
                IN  IF m.err THEN FALSE ELSE m.matched
          [] mt = "range" -> matchRange(targetValue, cond.Value)
          [] OTHER -> targetValue = cond.Value

\* targetValue, exists := values[cond.Selector]; if !exists { targetValue = "" }
TargetValue(values, cond) ==
    IF cond.Selector \in DOMAIN values THEN values[cond.Selector] ELSE <<>>

RECURSIVE AllFrom(_, _, _)
AllFrom(values, conditions, k) ==
    IF k > Len(conditions) THEN TRUE
    ELSE IF ~matchCondition(TargetValue(values, conditions[k]), conditions[k])
         THEN FALSE
         ELSE AllFrom(values, conditions, k + 1)

matchAllConditions(values, conditions) == AllFrom(values, conditions, 1)

RECURSIVE AnyFrom(_, _, _)
AnyFrom(values, conditions, k) ==
    IF k > Len(conditions) THEN FALSE
    ELSE IF matchCondition(TargetValue(values, conditions[k]), conditions[k])
         THEN TRUE
         ELSE AnyFrom(values, conditions, k + 1)

matchAnyCondition(values, conditions) == AnyFrom(values, conditions, 1)

\* a faulty variant: the "and" branch evaluates the conditions as "or" does
matchConditionsAlwaysAny(values, conditions, logic) ==
    IF Len(conditions) = 0 THEN TRUE
    ELSE matchAnyCondition(values, conditions)

matchConditions(values, conditions, logic) ==
    IF Len(conditions) = 0 THEN TRUE
    ELSE IF logic = "or" THEN matchAnyCondition(values, conditions)
         ELSE matchAllConditions(values, conditions)

matchGroup(values, group) ==
    LET lower == ToLower(group.Logic)
        logic == IF lower = "" THEN "and" ELSE lower
    IN  matchConditions(values, group.Conditions, logic)

RECURSIVE GroupsFrom(_, _, _)
GroupsFrom(values, groups, k) ==
    IF k > Len(groups) THEN TRUE
    ELSE IF ~matchGroup(values, groups[k]) THEN FALSE
         ELSE GroupsFrom(values, groups, k + 1)

matchRule(values, rule) ==
    LET lower == ToLower(rule.ConditionLogic)
        logic == IF lower = "" THEN "and" ELSE lower
        condResult == matchConditions(values, rule.Conditions, logic)
    IN  IF Len(rule.ConditionGroups) = 0 THEN condResult
        ELSE condResult /\ GroupsFrom(values, rule.ConditionGroups, 1)

\* a faulty variant: the scan keeps going and returns the last rule that matches
RECURSIVE LastMatchFrom(_, _, _)
LastMatchFrom(values, rules, i) ==
    IF i < 1 THEN 0
    ELSE IF matchRule(values, rules[i]) THEN i
         ELSE LastMatchFrom(values, rules, i - 1)

MatchRulesLast(values, rules) == LastMatchFrom(values, rules, Len(rules))

RECURSIVE FirstMatchFrom(_, _, _)
FirstMatchFrom(values, rules, i) ==
    IF i > Len(rules) THEN 0
    ELSE IF matchRule(values, rules[i]) THEN i
         ELSE FirstMatchFrom(values, rules, i + 1)

\* the *Rule returned is modelled as the position of the rule (1-based),
\* nil as 0
MatchRules(values, rules) == FirstMatchFrom(values, rules, 1)

(******************* the matcher applied to drawn inputs *******************)
CondPool ==
    { [Selector |-> "action", MatchType |-> "exact", Value |-> <<"p">>],
      [Selector |-> "action", MatchType |-> "Prefix", Value |-> <<"p">>],
      [Selector |-> "ghost", MatchType |-> "fuzzy", Value |-> <<>>] }

CondLists ==
    {<<>>} \cup {<<c>> : c \in CondPool}
           \cup {<<c, d>> : c \in CondPool, d \in CondPool}

LogicPool == {"", "AND", "or"}

RulePool ==
    {[ConditionLogic |-> l, Conditions |-> cs, ConditionGroups |-> <<>>,
      ScenarioStep |-> "", NextStep |-> "", ResponseFile |-> ""] :
        l \in LogicPool, cs \in CondLists}

ValueMaps ==
    { [n \in {"action"} |-> <<"p">>],
      [n \in {"action"} |-> <<"p", "q">>],
      [n \in {} |-> <<>>] }

RuleLists == UNION {[1..n -> RulePool] : n \in 0..MaxRules}

Evaluated(values, rules) ==
    [done |-> TRUE,
     rule |-> MatchRules(values, rules),
     each |-> [i \in 1..Len(rules) |-> matchRule(values, rules[i])]]

InitMatch ==
    /\ steps = EmptySteps
    /\ ApiIdle
    /\ ConcIdle
    /\ HttpIdle
    /\ RecIdle
    /\ CmIdle
    /\ PureIdle
    /\ mValues \in ValueMaps
    /\ mRules \in RuleLists
    /\ mResult = Pending

\* MatchRules(values, rules), and matchRule on each rule
Evaluate ==
    /\ ~mResult.done
    /\ mResult' = Evaluated(mValues, mRules)
    /\ UNCHANGED <<mValues, mRules, notMatch>>

\* the same call after condition k of rule r has been changed to c
ReplaceCondition(r, k, c) ==
    /\ mResult.done
    /\ r \in 1..Len(mRules)
    /\ k \in 1..Len(mRules[r].Conditions)
    /\ mRules[r].Conditions[k] # c
    /\ mRules' = [mRules EXCEPT ![r].Conditions[k] = c]
    /\ mResult' = Evaluated(mValues, mRules')
    /\ UNCHANGED <<mValues, notMatch>>

NextMatch ==
    \/ Evaluate
    \/ \E r \in 1..MaxRules, k \in 1..2, c \in CondPool : ReplaceCondition(r, k, c)

SpecMatch == InitMatch /\ [][NextMatch]_vars

(************************** Response Synthesizer ***************************)
RECURSIVE TotalWeight(_)
TotalWeight(responses) ==
    IF responses = <<>> THEN 0
    ELSE Head(responses).Weight + TotalWeight(Tail(responses))

\* a faulty variant: the entry is taken when the draw equals the running sum
DrawBelowOrAt(r, cumulative) == r <= cumulative

\* if r < cumulative { return resp }
DrawBelow(r, cumulative) == r < cumulative

RECURSIVE ScanFrom(_, _, _, _)
ScanFrom(responses, r, i, cumulative) ==
    IF i > Len(responses) THEN 1
    ELSE IF DrawBelow(r, cumulative + responses[i].Weight) THEN i
         ELSE ScanFrom(responses, r, i + 1, cumulative + responses[i].Weight)

\* the entry returned is modelled as its position (from 1), the zero value
\* RandomResponseConfig{} as 0; r is what rand.Intn(totalWeight) returned, u
\* what rand.Intn(len(responses)) returned
selectRandomResponse(responses, r, u) ==
    IF Len(responses) = 0 THEN 0
    ELSE IF TotalWeight(responses) = 0 THEN u + 1
         ELSE ScanFrom(responses, r, 1, 0)

(***************************** Template engines ****************************)
(* A template body or header value is a string whose elements are single    *)
(* characters and whole template actions ("{{.action}}", "{{", ...): the    *)
(* engines look at nothing smaller than an action.                          *)
Placeholder(name) == "{{." \o name \o "}}"

\* strings.ReplaceAll(s, placeholder, value)
RECURSIVE ReplaceAll(_, _, _)
ReplaceAll(s, placeholder, value) ==
    IF s = <<>> THEN <<>>
    ELSE (IF Head(s) = placeholder THEN value ELSE <<Head(s)>>)
            \o ReplaceAll(Tail(s), placeholder, value)

\* getBuiltinVariables, for the UUID and the time it draws
getBuiltinVariables(newUUID, now) ==
    [n \in {"timestamp", "uuid", "request_id"} |->
        CASE n = "timestamp" -> now
          [] n = "uuid" -> newUUID
          [] OTHER -> Split(newUUID, "-")[1]]

\* for name, value := range values { ReplaceAll }, in the order the map
\* iteration happens to take
RECURSIVE ReplaceValues(_, _, _)
ReplaceValues(result, values, order) ==
    IF order = <<>> THEN result
    ELSE ReplaceValues(ReplaceAll(result, Placeholder(Head(order)), values[Head(order)]),
                       values, Tail(order))

replaceSimple(content, values, draw) ==
    LET builtins == getBuiltinVariables(draw.uuid, draw.now)
        r1 == ReplaceAll(content, "{{.timestamp}}", builtins["timestamp"])
        r2 == ReplaceAll(r1, "{{.uuid}}", builtins["uuid"])
        r3 == ReplaceAll(r2, "{{.request_id}}", builtins["request_id"])
    IN  ReplaceValues(r3, values, draw.order)

\* text/template on the actions among the modelled inputs: "{{" is an
\* unclosed action and "{{nosuch}}" calls an undefined function (Parse
\* fails); "{{index .action 9}}" indexes a string (Execute fails);
\* "{{.name}}" prints data[name], and "<no value>" when the key is missing
ParseFails(content) ==
    \E i \in 1..Len(content) : content[i] \in {"{{", "{{nosuch}}"}

ExecuteFails(content) ==
    \E i \in 1..Len(content) : content[i] = "{{index .action 9}}"

\* data: the builtins, overwritten by the selector values
TemplateData(values, builtins) ==
    [k \in (DOMAIN builtins) \cup (DOMAIN values) |->
        IF k \in DOMAIN values THEN values[k] ELSE builtins[k]]

FieldNames == {"timestamp", "uuid", "request_id", "action", "session_id", "ghost"}

RECURSIVE Execute(_, _)
Execute(content, data) ==
    IF content = <<>> THEN <<>>
    ELSE LET c == Head(content)
             names == {n \in FieldNames : Placeholder(n) = c}
             out == IF names = {} THEN <<c>>
                    ELSE LET n == CHOOSE n \in names : TRUE
                         IN  IF n \in DOMAIN data THEN data[n] ELSE <<"<no value>">>
         IN  out \o Execute(Tail(content), data)

\* a faulty variant: on a parse error the content is returned as it is
replaceWithGoTemplateNoFallback(content, values, draw) ==
    IF ParseFails(content) THEN content
    ELSE IF ExecuteFails(content) THEN replaceSimple(content, values, draw)
    ELSE Execute(content,
                 TemplateData(values, getBuiltinVariables(draw.goUuid, draw.now)))

replaceWithGoTemplate(content, values, draw) ==
    IF ParseFails(content) THEN replaceSimple(content, values, draw)
    ELSE IF ExecuteFails(content) THEN replaceSimple(content, values, draw)
    ELSE Execute(content,
                 TemplateData(values, getBuiltinVariables(draw.goUuid, draw.now)))

ReplaceVariablesWithEngine(content, values, engine, draw) ==
    IF ToLower(engine) = "go" THEN replaceWithGoTemplate(content, values, draw)
    ELSE replaceSimple(content, values, draw)

(************* matchRule applied to rules with condition groups ************)
GroupCondPool ==
    { [Selector |-> "action", MatchType |-> "exact", Value |-> <<"p">>],
      [Selector |-> "action", MatchType |-> "Prefix", Value |-> <<"p">>] }

GroupCondLists ==
    {<<>>} \cup {<<c>> : c \in GroupCondPool}
           \cup {<<c, d>> : c \in GroupCondPool, d \in GroupCondPool}

GroupPool ==
    {[Logic |-> l, Conditions |-> cs] : l \in {"", "Or"}, cs \in GroupCondLists}

GroupLists == UNION {[1..n -> GroupPool] : n \in 0..MaxGroups}

GroupRulePool ==
    {[ConditionLogic |-> l, Conditions |-> cs, ConditionGroups |-> gs,
      ScenarioStep |-> "", NextStep |-> "", ResponseFile |-> ""] :
        l \in {"", "or"}, cs \in GroupCondLists, gs \in GroupLists}

InitGroup ==
    /\ steps = EmptySteps
    /\ ApiIdle
    /\ ConcIdle
    /\ HttpIdle
    /\ RecIdle
    /\ CmIdle
    /\ PureIdle
    /\ mValues \in ValueMaps
    /\ mRules \in {<<r>> : r \in GroupRulePool}
    /\ mResult = Pending

NextGroup == Evaluate

SpecGroup == InitGroup /\ [][NextGroup]_vars

(************************* Resolution Orchestrator *************************)
\* a faulty variant: the step filter of a rule is not consulted
StepAllowsAnything(rule, currentStep) == TRUE

\* first rule whose step filter admits currentStep and whose conditions match
StepAllows(rule, currentStep) ==
    \/ rule.ScenarioStep = ""
    \/ rule.ScenarioStep = "any"
    \/ rule.ScenarioStep = currentStep

RECURSIVE FirstStepMatchFrom(_, _, _, _)
FirstStepMatchFrom(values, rules, currentStep, i) ==
    IF i > Len(rules) THEN 0
    ELSE IF StepAllows(rules[i], currentStep) /\ matchRule(values, rules[i]) THEN i
         ELSE FirstStepMatchFrom(values, rules, currentStep, i + 1)

MatchRulesForStep(values, rules, currentStep) ==
    FirstStepMatchFrom(values, rules, currentStep, 1)

\* c.GetHeader(key): "" when the header is absent
GetHeader(headers, key) ==
    IF key \in DOMAIN headers THEN headers[key] ELSE <<>>

MapPut(m, k, v) == [x \in (DOMAIN m) \cup {k} |-> IF x = k THEN v ELSE m[x]]

\* m[k] of a Go map[string]string: "" when k is absent
MapGet(m, k) == IF k \in DOMAIN m THEN m[k] ELSE <<>>

NoMap == [n \in {} |-> <<>>]

\* a request body: the bytes, how many of them were consumed, and the number
\* of reads made of it
StreamOf(bytes) == [bytes |-> bytes, pos |-> 0, reads |-> 0]

\* io.ReadAll(body): what is left of the stream, which is then at its end
ReadAll(body) ==
    [data |-> SubSeq(body.bytes, body.pos + 1, Len(body.bytes)),
     body |-> [body EXCEPT !.pos = Len(body.bytes), !.reads = body.reads + 1]]

\* gjson.GetBytes(json, key).String() on bodies written as "{" key value key
\* value ... "}", one element per token: gjson does not validate, it scans
\* the members of an object from the left and stops at the first with the
\* key, whether or not the object is ever closed; anything that does not open
\* an object has no members
RECURSIVE GjsonScan(_, _, _)
GjsonScan(json, key, i) ==
    IF i + 1 > Len(json) \/ json[i] = "}" THEN <<>>
    ELSE IF json[i] = key
         THEN IF json[i + 1] = "}" THEN <<>> ELSE <<json[i + 1]>>
         ELSE GjsonScan(json, key, i + 2)

GjsonGet(json, key) ==
    IF json = <<>> \/ Head(json) # "{" THEN <<>> ELSE GjsonScan(json, key, 2)

\* a faulty variant: the body is read for every body selector
BodyBytesReadAnew(c, st) == ReadAll(st.body)

\* if !bodyRead { bodyBytes, _ = io.ReadAll(c.Request.Body); bodyRead = true }
BodyBytesOnce(c, st) ==
    IF st.bodyRead THEN [data |-> st.bodyBytes, body |-> st.body]
    ELSE ReadAll(st.body)

\* one turn of the loop of ExtractValues: value of the selector, and what
\* became of the body
SelectorValue(c, sel, pathParams, st) ==
    LET t == ToLower(sel.Type)
        rd == BodyBytesOnce(c, st)
        fromPath == MapGet(pathParams, sel.Key)
    IN  CASE t = "body" ->
               [value |-> GjsonGet(rd.data, sel.Key), bodyBytes |-> rd.data,
                bodyRead |-> TRUE, body |-> rd.body]
          [] t = "header" ->
               [st EXCEPT !.value = GetHeader(c.headers, sel.Key)]
          [] t = "query" ->
               [st EXCEPT !.value = MapGet(c.query, sel.Key)]
          [] t = "path" ->
               [st EXCEPT !.value = IF fromPath = <<>> THEN MapGet(c.params, sel.Key)
                                    ELSE fromPath]
          [] OTHER -> [st EXCEPT !.value = <<>>]

RECURSIVE ExtractFrom(_, _, _, _, _, _)
ExtractFrom(c, selectors, pathParams, i, values, st) ==
    IF i > Len(selectors) THEN [values |-> values, body |-> st.body]
    ELSE LET nx == SelectorValue(c, selectors[i], pathParams, st)
         IN  ExtractFrom(c, selectors, pathParams, i + 1,
                         MapPut(values, selectors[i].Name, nx.value), nx)

\* ExtractValues with what it leaves of the request body
Extraction(c, selectors, pathParams) ==
    ExtractFrom(c, selectors, pathParams, 1, NoMap,
                [value |-> <<>>, bodyBytes |-> <<>>, bodyRead |-> FALSE, body |-> c.body])

ExtractValues(c, selectors, pathParams) == Extraction(c, selectors, pathParams).values

\* a request that has headers only
RequestOf(headers) ==
    [headers |-> headers, query |-> NoMap, params |-> NoMap, body |-> StreamOf(<<>>)]

\* the configuration: a scenario endpoint partitioned by a header, an
\* endpoint of the same scenario without partition selector, and an endpoint
\* without scenario whose rule nevertheless names a next step
ActionIs(v) == [Selector |-> "action", MatchType |-> "exact", Value |-> v]

MkRule(step, conds, next, file) ==
    [ConditionLogic |-> "", Conditions |-> conds, ConditionGroups |-> <<>>,
     ScenarioStep |-> step, NextStep |-> next, ResponseFile |-> file,
     InlineBody |-> IF file = "" THEN <<"r">> ELSE <<>>]

\* a condition whose pattern does not compile, and one whose range is cut off
BadRegex == [Selector |-> "action", MatchType |-> "regex", Value |-> <<"(">>]
BadRange == [Selector |-> "ghost", MatchType |-> "range", Value |-> <<"[", "1">>]

SessionSelector == [Name |-> "session_id", Type |-> "header", Key |-> "X-Session"]
ActionSelector == [Name |-> "action", Type |-> "Header", Key |-> "X-Action"]

Endpoints ==
    << [Scenario |-> <<"s">>, ScenarioKey |-> "session_id",
        Selectors |-> <<SessionSelector, ActionSelector>>,
        Rules |-> << MkRule("idle", <<ActionIs(<<"p">>)>>, "x", "a.json"),
                     MkRule("x", <<ActionIs(<<"p">>)>>, "y", "missing.json"),
                     MkRule("any", <<ActionIs(<<"p", "q">>)>>, "", "") >>,
        Default |-> [ResponseFile |-> "d.json", InlineBody |-> <<"i">>]],
       [Scenario |-> <<"s">>, ScenarioKey |-> "",
        Selectors |-> <<SessionSelector>>,
        Rules |-> << MkRule("", <<>>, "x", "a.json") >>,
        Default |-> [ResponseFile |-> "d.json", InlineBody |-> <<"i">>]],
       [Scenario |-> <<>>, ScenarioKey |-> "",
        Selectors |-> <<ActionSelector>>,
        Rules |-> << MkRule("", <<ActionIs(<<"p">>)>>, "x", "a.json"),
                     MkRule("", <<BadRegex>>, "", "a.json"),
                     MkRule("", <<BadRange>>, "", "a.json") >>,
        Default |-> [ResponseFile |-> "missing.json", InlineBody |-> <<"i">>]] >>

\* the response files os.ReadFile can read
ReadableFiles == {"a.json", "d.json"}

HeaderMaps ==
    { [n \in {"X-Action"} |-> <<"p">>],
      [n \in {"X-Action"} |-> <<"p", "q">>],
      [n \in {"X-Session", "X-Action"} |-> IF n = "X-Session" THEN <<"q">> ELSE <<"p">>],
      [n \in {"X-Session", "X-Action"} |-> <<"q">>] }

AdminNames == { <<>>, <<"s">> }
AdminPartitionKeys == { <<>>, <<"q">> }

InFlight == {r \in DOMAIN req : req[r].pc # "idle"}

\* the budget of exchanges is not used up
MayAccept == Len(served) + Cardinality(InFlight) < MaxServed

\* a faulty variant: the partition selector is ignored
PartitionOfAlwaysEmpty(e, values) == <<>>

\* partitionValue := ""; if endpoint.ScenarioKey != "" { values[ScenarioKey] }
PartitionOf(e, values) ==
    IF e.ScenarioKey # "" THEN MapGet(values, e.ScenarioKey) ELSE <<>>

\* a faulty variant: the transition is skipped
AfterMatchNoTransition(rules, m) == "build"

\* a faulty variant: every matched rule makes a transition
AfterMatchAlwaysTransition(rules, m) == IF m # 0 THEN "setstep" ELSE "build"

\* if matchedRule != nil && matchedRule.NextStep != "" { SetStep } -- then Build
AfterMatch(rules, m) ==
    IF m # 0 /\ rules[m].NextStep # "" THEN "setstep" ELSE "build"

\* handleRequest up to and including ExtractValues
Receive(r, e, h) ==
    /\ req[r].pc = "idle"
    /\ MayAccept
    /\ req' = [req EXCEPT ![r] =
                 [pc |-> IF Endpoints[e].Scenario # <<>> THEN "getstep" ELSE "match",
                  ep |-> e, headers |-> h,
                  values |-> ExtractValues(RequestOf(h), Endpoints[e].Selectors, NoMap),
                  partitionValue |-> <<>>, currentStep |-> "", matchedRule |-> 0]]
    /\ UNCHANGED <<steps, served, notHttp>>

\* stateStore.GetStep and MatchRulesForStep
ReadStep(r) ==
    /\ req[r].pc = "getstep"
    /\ LET e == Endpoints[req[r].ep]
           pv == PartitionOf(e, req[r].values)
           cs == GetStepOf(steps, e.Scenario, pv)
           m == MatchRulesForStep(req[r].values, e.Rules, cs)
       IN  req' = [req EXCEPT ![r].partitionValue = pv,
                              ![r].currentStep = cs,
                              ![r].matchedRule = m,
                              ![r].pc = AfterMatch(e.Rules, m)]
    /\ UNCHANGED <<steps, served, notHttp>>

\* stateStore.SetStep(endpoint.Scenario, partitionValue, matchedRule.NextStep)
Transition(r) ==
    /\ req[r].pc = "setstep"
    /\ LET e == Endpoints[req[r].ep]
       IN  steps' = SetStepOf(steps, e.Scenario, req[r].partitionValue,
                              e.Rules[req[r].matchedRule].NextStep)
    /\ req' = [req EXCEPT ![r].pc = "build"]
    /\ UNCHANGED <<served, notHttp>>

\* MatchRules, for an endpoint without scenario
MatchOnly(r) ==
    /\ req[r].pc = "match"
    /\ LET e == Endpoints[req[r].ep]
       IN  req' = [req EXCEPT ![r].matchedRule = MatchRules(req[r].values, e.Rules),
                              ![r].pc = "build"]
    /\ UNCHANGED <<steps, served, notHttp>>

\* a faulty variant: the position is counted from one
getRuleIndexFromOne(rules, target) ==
    IF target \in 1..Len(rules) THEN target ELSE -1

RECURSIVE IndexFrom(_, _, _)
IndexFrom(rules, target, i) ==
    IF i >= Len(rules) THEN -1
    ELSE IF i + 1 = target THEN i
         ELSE IndexFrom(rules, target, i + 1)

\* a *Rule is modelled as the position (from 1) of the element of rules it
\* points to; rules is the one slice built by convertRules that is handed
\* both to the matcher and to getRuleIndex, so that &rules[i] == target
\* exactly when target is position i + 1
getRuleIndex(rules, target) == IndexFrom(rules, target, 0)

\* fmt.Sprintf("rule_%d", getRuleIndex(rules, matchedRule)), or "default"
MatchedRuleName(rules, m) ==
    IF m # 0 THEN <<"rule_", getRuleIndex(rules, m)>> ELSE <<"default">>

ResponseFileOf(e, m) ==
    IF m # 0 THEN e.Rules[m].ResponseFile ELSE e.Default.ResponseFile

\* a faulty variant: a specification without file fails as well
BuildFailsOnEmpty(file) == file \notin ReadableFiles

\* Build fails exactly when the response file is named and cannot be read
BuildFails(file) == file # "" /\ file \notin ReadableFiles

\* what os.ReadFile returns for the readable files
FileContent(file) ==
    CASE file = "a.json" -> <<"a", "{{.action}}">>
      [] file = "d.json" -> <<"d">>
      [] OTHER -> <<>>

\* a faulty variant: an unset status is passed on as it is
StatusAsGiven(code) == code

\* result.StatusCode = cfg.StatusCode; if result.StatusCode == 0 { 200 }
StatusOrDefault(code) == IF code = 0 THEN 200 ELSE code

\* the chosen random response overwrites file, status and delay of cfg
Resolved(cfg, draw) ==
    IF Len(cfg.RandomResponses) > 0
    THEN LET rr == cfg.RandomResponses[
                       selectRandomResponse(cfg.RandomResponses, draw.r, draw.u)]
         IN  [cfg EXCEPT !.ResponseFile = rr.File, !.StatusCode = rr.StatusCode,
                         !.DelayMs = rr.DelayMs]
    ELSE cfg

EngineOf(cfg) == IF cfg.TemplateEngine = "" THEN "simple" ELSE cfg.TemplateEngine

\* result.Headers: Content-Type first, then cfg.Headers over it, each value
\* through the template engine when templating is enabled
MergedHeaders(cfg, contentType, values, draw) ==
    [k \in {"Content-Type"} \cup DOMAIN cfg.Headers |->
        IF k \in DOMAIN cfg.Headers
        THEN IF cfg.TemplateEnabled
             THEN ReplaceVariablesWithEngine(cfg.Headers[k], values, EngineOf(cfg), draw)
             ELSE cfg.Headers[k]
        ELSE contentType]

NoResult ==
    [err |-> TRUE, Body |-> <<>>, StatusCode |-> 0, DelayMs |-> 0,
     ContentType |-> <<>>, Headers |-> <<>>]

\* ResponseBuilder.Build; content types and header values are strings whose
\* elements are whole words or template actions
Build(cfg, values, draw) ==
    LET c == Resolved(cfg, draw)
        content == IF c.ResponseFile # "" THEN FileContent(c.ResponseFile) ELSE <<>>
        body == IF c.TemplateEnabled /\ Len(content) > 0
                THEN ReplaceVariablesWithEngine(content, values, EngineOf(c), draw)
                ELSE content
        contentType == IF c.ContentType = <<>> THEN <<"application/json">>
                       ELSE c.ContentType
    IN  IF BuildFails(c.ResponseFile) THEN NoResult
        ELSE [err |-> FALSE, Body |-> body,
              StatusCode |-> StatusOrDefault(c.StatusCode),
              DelayMs |-> c.DelayMs, ContentType |-> contentType,
              Headers |-> MergedHeaders(c, contentType, values, draw)]

NoHeaders == [k \in {} |-> <<>>]

\* the draws of a call that draws nothing
NoDraw ==
    [uuid |-> <<"u", "-", "1">>, goUuid |-> <<"v", "-", "2">>, now |-> <<"T">>,
     order |-> <<>>, r |-> 0, u |-> 0]

\* respCfg of handleRequest, from the matched rule or from the default; the
\* modelled endpoints set file (and inline body) only
RespCfgOf(e, m) ==
    [ResponseFile |-> ResponseFileOf(e, m), StatusCode |-> 0, DelayMs |-> 0,
     Headers |-> NoHeaders, ContentType |-> <<>>, TemplateEnabled |-> FALSE,
     TemplateEngine |-> "simple", RandomResponses |-> <<>>]

\* responseBuilder.Build, then handleError or c.Data
Respond(r) ==
    /\ req[r].pc = "build"
    /\ LET e == Endpoints[req[r].ep]
           file == ResponseFileOf(e, req[r].matchedRule)
           result == Build(RespCfgOf(e, req[r].matchedRule), req[r].values, NoDraw)
       IN  served' = Append(served,
                [kind |-> "mock", ep |-> req[r].ep, headers |-> req[r].headers,
                 scenario |-> e.Scenario,
                 partition |-> req[r].partitionValue, step |-> req[r].currentStep,
                 rule |-> req[r].matchedRule,
                 matched_rule |-> MatchedRuleName(e.Rules, req[r].matchedRule),
                 file |-> file,
                 status |-> IF result.err THEN 500 ELSE result.StatusCode,
                 body |-> IF result.err THEN <<"INTERNAL_ERROR">> ELSE result.Body])
    /\ req' = [req EXCEPT ![r] = NoRequest]
    /\ UNCHANGED <<steps, notHttp>>

\* admin Handler.resetScenario
AdminReset(name, partitionKey) ==
    /\ MayAccept
    /\ steps' = IF name = <<>> THEN steps
                ELSE IF partitionKey # <<>>
                     THEN ResetPartitionOf(steps, name, partitionKey)
                     ELSE ResetScenarioOf(steps, name)
    /\ served' = Append(served,
            [kind |-> "reset", ep |-> 0, headers |-> <<>>, scenario |-> name,
             partition |-> partitionKey, step |-> "", rule |-> 0,
             status |-> IF name = <<>> THEN 400 ELSE 200])
    /\ UNCHANGED <<req, notHttp>>

\* the server takes up an exchange only when the previous one is finished
ReceiveSeq(r, e, h) == InFlight = {} /\ Receive(r, e, h)

AdminResetSeq(name, partitionKey) == InFlight = {} /\ AdminReset(name, partitionKey)

NextSeq ==
    \/ \E r \in Slots, e \in 1..Len(Endpoints), h \in HeaderMaps : ReceiveSeq(r, e, h)
    \/ \E r \in Slots : ReadStep(r)
    \/ \E r \in Slots : Transition(r)
    \/ \E r \in Slots : MatchOnly(r)
    \/ \E r \in Slots : Respond(r)
    \/ \E n \in AdminNames, k \in AdminPartitionKeys : AdminResetSeq(n, k)

SpecSeq == Init /\ [][NextSeq]_vars

(************ the handler run by two goroutines of the server **************)
\* net/http serves every connection in a goroutine of its own, and gin runs
\* handleRequest in it: two requests are inside handleRequest at once
HandlerGoroutines == {"r1", "r2"}

InitHandlers ==
    /\ steps = EmptySteps
    /\ ApiIdle
    /\ ConcIdle
    /\ MatchIdle
    /\ req = [r \in HandlerGoroutines |-> NoRequest]
    /\ served = <<>>
    /\ RecIdle
    /\ CmIdle
    /\ PureIdle

\* every goroutine handles one request
ReceiveIn(r, e, h) ==
    /\ Len(served) + Cardinality(InFlight) < Cardinality(HandlerGoroutines)
    /\ Receive(r, e, h)

NextHandlers ==
    \/ \E r \in HandlerGoroutines, e \in 1..Len(Endpoints), h \in HeaderMaps :
          ReceiveIn(r, e, h)
    \/ \E r \in HandlerGoroutines : ReadStep(r)
    \/ \E r \in HandlerGoroutines : Transition(r)
    \/ \E r \in HandlerGoroutines : MatchOnly(r)
    \/ \E r \in HandlerGoroutines : Respond(r)

SpecHandlers == InitHandlers /\ [][NextHandlers]_vars

(*************** MatchRulesForStep applied to drawn inputs ******************)
StepFilters == {"", "any", "idle", "x"}

CurrentSteps == {"idle", "x", "y"}

StepRulePool ==
    {[ConditionLogic |-> "", Conditions |-> cs, ConditionGroups |-> <<>>,
      ScenarioStep |-> f, NextStep |-> "", ResponseFile |-> ""] :
        f \in StepFilters, cs \in {<<>>, <<ActionIs(<<"p">>)>>}}

StepRuleLists == UNION {[1..n -> StepRulePool] : n \in 0..MaxRules}

InitStep ==
    /\ steps = EmptySteps
    /\ ApiIdle
    /\ ConcIdle
    /\ HttpIdle
    /\ RecIdle
    /\ CmIdle
    /\ PureIdle
    /\ mValues \in ValueMaps
    /\ mRules \in StepRuleLists
    /\ mResult = Pending

\* MatchRulesForStep(values, rules, currentStep), and matchRule on each rule
EvaluateForStep(currentStep) ==
    /\ ~mResult.done
    /\ mResult' = [done |-> TRUE,
                   rule |-> MatchRulesForStep(mValues, mRules, currentStep),
                   each |-> [i \in 1..Len(mRules) |-> matchRule(mValues, mRules[i])],
                   step |-> currentStep]
    /\ UNCHANGED <<mValues, mRules, notMatch>>

NextStepMatch == \E cs \in CurrentSteps : EvaluateForStep(cs)

SpecStep == InitStep /\ [][NextStepMatch]_vars

(***************** the template engines on drawn inputs ********************)
Orders(S) ==
    {f \in [1..Cardinality(S) -> S] : \A i, j \in DOMAIN f : f[i] = f[j] => i = j}

TemplateContents ==
    { <<>>,
      <<"a", "{{.action}}">>,
      <<"{{.action}}", "{{">>,
      <<"{{nosuch}}", "{{.uuid}}", "{{.ghost}}">>,
      <<"{{.action}}", "{{index .action 9}}", "{{.request_id}}">>,
      <<"{{.ghost}}", "{{.session_id}}", "{{.timestamp}}">> }

TemplateValues ==
    { [n \in {} |-> <<>>],
      [n \in {"action"} |-> <<"p", "q">>],
      [n \in {"action", "session_id"} |->
          IF n = "action" THEN <<"{{.session_id}}">> ELSE <<"q">>] }

EngineNames == {"", "simple", "go", "Go", "jinja"}

TemplateDraws(values) ==
    [uuid : {<<"u", "-", "1">>, <<"w", "-", "3">>}, goUuid : {<<"v", "-", "2">>},
     now : {<<"T">>}, order : Orders(DOMAIN values)]

InitTemplate ==
    /\ steps = EmptySteps
    /\ ApiIdle
    /\ ConcIdle
    /\ MatchIdle
    /\ HttpIdle
    /\ RecIdle
    /\ CmIdle
    /\ pArgs \in {[content |-> c, values |-> v, engine |-> e, draw |-> d] :
                    c \in TemplateContents, v \in TemplateValues, e \in EngineNames,
                    d \in UNION {TemplateDraws(w) : w \in TemplateValues}}
    /\ pArgs.draw \in TemplateDraws(pArgs.values)
    /\ pResult = NotCalled

\* ReplaceVariablesWithEngine(content, values, engine)
Render ==
    /\ ~pResult.done
    /\ pResult' = [done |-> TRUE,
                   out |-> ReplaceVariablesWithEngine(pArgs.content, pArgs.values,
                                                      pArgs.engine, pArgs.draw)]
    /\ UNCHANGED <<pArgs, notPure>>

NextTemplate == Render

SpecTemplate == InitTemplate /\ [][NextTemplate]_vars

(********************* matchRange on drawn inputs **************************)
BoundNumerals ==
    { <<"0">>, <<"1">>, <<"5">>, <<"1", "0">>, <<BigDigits, "2">> }

RangeTargets ==
    BoundNumerals \cup { <<BigDigits, "3">>, <<>>, <<"a">>, <<"5", " ">> }

\* "[min, max]" in its four bracketings, with and without the space after
\* the comma, with and without spaces around
WellFormedRanges ==
    {[wf |-> TRUE, lb |-> lb, min |-> lo, max |-> hi, rb |-> rb,
      str |-> pad \o <<lb>> \o lo \o sep \o hi \o <<rb>> \o pad] :
        lb \in {"[", "("}, rb \in {"]", ")"},
        lo \in BoundNumerals, hi \in BoundNumerals,
        sep \in {<<",">>, <<",", " ">>}, pad \in {<<>>, <<" ">>}}

\* too short, no comma, a bound that is no number, three segments, empty
MalformedRanges ==
    {[wf |-> FALSE, lb |-> "", min |-> <<>>, max |-> <<>>, rb |-> "", str |-> r] :
        r \in { <<"[", "1", "]">>,
                <<"[", "1", " ", "5", "]">>,
                <<"[", "a", ",", " ", "5", "]">>,
                <<"[", "1", ",", " ", "b", "]">>,
                <<"[", "1", ",", "5", ",", "9", "]">>,
                <<>> }}

InitRange ==
    /\ steps = EmptySteps
    /\ ApiIdle
    /\ ConcIdle
    /\ MatchIdle
    /\ HttpIdle
    /\ RecIdle
    /\ CmIdle
    /\ pArgs \in [target : RangeTargets, range : WellFormedRanges \cup MalformedRanges]
    /\ pResult = NotCalled

\* matchRange(targetValue, rangeStr)
CheckRange ==
    /\ ~pResult.done
    /\ pResult' = [done |-> TRUE, matched |-> matchRange(pArgs.target, pArgs.range.str)]
    /\ UNCHANGED <<pArgs, notPure>>

NextRange == CheckRange

SpecRange == InitRange /\ [][NextRange]_vars

(***************** selectRandomResponse on drawn inputs ********************)
FileNames == <<"A", "B", "C", "D", "E">>

Weights == {0, 1, 2, 100}

WeightLists == UNION {[1..n -> Weights] : n \in 1..MaxEntries}

ResponsesOf(ws) ==
    [i \in 1..Len(ws) |->
        [File |-> FileNames[i], Weight |-> ws[i], StatusCode |-> 0, DelayMs |-> 0]]

InitRandom ==
    /\ steps = EmptySteps
    /\ ApiIdle
    /\ ConcIdle
    /\ MatchIdle
    /\ HttpIdle
    /\ RecIdle
    /\ CmIdle
    /\ pArgs \in {ResponsesOf(ws) : ws \in WeightLists}
    /\ pResult = NotCalled

\* the call when the weights are not all zero: r := rand.Intn(totalWeight)
DrawWeighted(r) ==
    /\ ~pResult.done
    /\ TotalWeight(pArgs) > 0
    /\ r \in 0..(TotalWeight(pArgs) - 1)
    /\ pResult' = [done |-> TRUE, panic |-> FALSE, r |-> r, u |-> 0,
                   index |-> selectRandomResponse(pArgs, r, 0)]
    /\ UNCHANGED <<pArgs, notPure>>

\* the call when all weights are zero: rand.Intn(len(responses))
DrawUniform(u) ==
    /\ ~pResult.done
    /\ TotalWeight(pArgs) = 0
    /\ u \in 0..(Len(pArgs) - 1)
    /\ pResult' = [done |-> TRUE, panic |-> FALSE, r |-> 0, u |-> u,
                   index |-> selectRandomResponse(pArgs, 0, u)]
    /\ UNCHANGED <<pArgs, notPure>>

NextRandom ==
    \/ \E r \in 0..(TotalWeight(pArgs) - 1) : DrawWeighted(r)
    \/ \E u \in 0..(Len(pArgs) - 1) : DrawUniform(u)

SpecRandom == InitRandom /\ [][NextRandom]_vars

(************ selectRandomResponse on weights of either sign ***************)
\* RandomResponse.Weight is an int: the configuration may give any
SignedWeights == {-2, -1, 0, 1, 2}

SignedWeightLists == UNION {[1..n -> SignedWeights] : n \in 1..MaxEntries}

InitSigned ==
    /\ steps = EmptySteps
    /\ ApiIdle
    /\ ConcIdle
    /\ MatchIdle
    /\ HttpIdle
    /\ RecIdle
    /\ CmIdle
    /\ pArgs \in {ResponsesOf(ws) : ws \in SignedWeightLists}
    /\ pResult = NotCalled

\* rand.Intn(n) panics ("invalid argument to Intn") when n <= 0
IntnPanics(n) == n <= 0

\* the call when the weights add up to less than zero: totalWeight == 0 is
\* false, and r := rand.Intn(totalWeight) panics before any entry is chosen
DrawPanics ==
    /\ ~pResult.done
    /\ TotalWeight(pArgs) # 0
    /\ IntnPanics(TotalWeight(pArgs))
    /\ pResult' = [done |-> TRUE, panic |-> TRUE, r |-> 0, u |-> 0, index |-> 0]
    /\ UNCHANGED <<pArgs, notPure>>

NextSigned ==
    \/ \E r \in 0..(TotalWeight(pArgs) - 1) : DrawWeighted(r)
    \/ \E u \in 0..(Len(pArgs) - 1) : DrawUniform(u)
    \/ DrawPanics

SpecSigned == InitSigned /\ [][NextSigned]_vars

(***************************** Recorder *************************************)
\* Record: the entry gets the next ID and goes behind the newest, or over the
\* oldest when the buffer is full; entries[i] of the code is entries[i + 1]
RecordOf(r) ==
    LET id == r.nextID + 1
    IN  IF r.count < r.maxEntries
        THEN [r EXCEPT !.nextID = id, !.entries[r.count + 1] = id,
                       !.count = r.count + 1]
        ELSE [r EXCEPT !.nextID = id, !.entries[r.head + 1] = id,
                       !.head = (r.head + 1) % r.maxEntries]

\* a faulty variant: the newest entry is looked for as if head were 0
ListIndexFromZero(r, i) == (r.count - 1 - i) % r.maxEntries

\* idx := (r.head + r.count - 1 - i) % r.maxEntries
ListIndex(r, i) == (r.head + r.count - 1 - i) % r.maxEntries

\* List(limit, offset) for limit and offset that are not negative
ListOfRecorder(r, limit, offset) ==
    LET ordered == [i \in 1..r.count |-> r.entries[ListIndex(r, i - 1) + 1]]
        skipped == SubSeq(ordered, offset + 1, Len(ordered))
    IN  IF r.count = 0 THEN <<>>
        ELSE IF offset >= Len(ordered) THEN <<>>
        ELSE IF limit > 0 /\ limit < Len(skipped) THEN SubSeq(skipped, 1, limit)
        ELSE skipped

ClearOf(r) ==
    [r EXCEPT !.entries = [i \in 1..r.maxEntries |-> 0], !.head = 0, !.count = 0]

Record ==
    /\ recorder.nextID < MaxRecords
    /\ recorder' = RecordOf(recorder)
    /\ recLog' = Append(recLog, recorder.nextID + 1)
    /\ recRet' = Void
    /\ UNCHANGED notRec

ListRecorded(limit, offset) ==
    /\ recRet' = [kind |-> "list", limit |-> limit, offset |-> offset,
                  out |-> ListOfRecorder(recorder, limit, offset)]
    /\ UNCHANGED <<recorder, recLog, notRec>>

CountRecorded ==
    /\ recRet' = [kind |-> "count", out |-> recorder.count]
    /\ UNCHANGED <<recorder, recLog, notRec>>

ClearRecorded ==
    /\ recorder' = ClearOf(recorder)
    /\ recLog' = <<>>
    /\ recRet' = Void
    /\ UNCHANGED notRec

NextRecorder ==
    \/ Record
    \/ \E limit, offset \in 0..(Capacity + 1) : ListRecorded(limit, offset)
    \/ CountRecorded
    \/ ClearRecorded

SpecRecorder == Init /\ [][NextRecorder]_vars

(*************************** ConfigManager **********************************)
ZeroEndpoint == [Method |-> "", Path |-> <<>>, Src |-> ""]

\* Config.Endpoints of the configurations a file can hold; a path is the
\* sequence of its segments
ConfigEndpoints(config) ==
    CASE config = 1 -> << [Method |-> "GET", Path |-> <<"a">>, Src |-> "f1"] >>
      [] config = 2 -> << [Method |-> "ANY", Path |-> <<"a", ":id">>, Src |-> "f2"],
                          [Method |-> "POST", Path |-> <<"b">>, Src |-> "f3"] >>
      [] OTHER -> <<>>

ValidConfigs == {1, 2}

RuntimePool ==
    { [Method |-> "get", Path |-> <<"a">>, Src |-> "r1"],
      [Method |-> "GET", Path |-> <<"a", "7">>, Src |-> "r2"] }

\* the elements of a slice
SliceItems(h, s) == IF s.arr = 0 THEN <<>> ELSE SubSeq(h[s.arr], 1, s.len)

\* append(s, ep): in place while the capacity lasts, else into a new array
\* with room for grow elements more
AppendOne(h, s, ep, grow) ==
    IF s.arr # 0 /\ s.len < Len(h[s.arr])
    THEN [heap |-> [h EXCEPT ![s.arr][s.len + 1] = ep],
          slice |-> [arr |-> s.arr, len |-> s.len + 1]]
    ELSE [heap |-> Append(h, SliceItems(h, s) \o <<ep>>
                                \o [i \in 1..grow |-> ZeroEndpoint]),
          slice |-> [arr |-> Len(h) + 1, len |-> s.len + 1]]

\* append(s[:index], s[index+1:]...): the elements behind index move one
\* place down in the same array
RemoveAt(h, s, index) ==
    [heap |-> [h EXCEPT ![s.arr] =
                  [i \in 1..Len(h[s.arr]) |->
                      IF i > index /\ i < s.len THEN h[s.arr][i + 1] ELSE h[s.arr][i]]],
     slice |-> [arr |-> s.arr, len |-> s.len - 1]]

\* a faulty variant: the slice of the manager is handed out itself
SliceItself(h, s) == [heap |-> h, slice |-> s]

\* result := make([]Endpoint, len(s)); copy(result, s)
CopyOfSlice(h, s) ==
    [heap |-> Append(h, SliceItems(h, s)),
     slice |-> [arr |-> Len(h) + 1, len |-> s.len]]

\* a faulty variant: the runtime endpoints come first
RuntimeThenFile(fileEps, runtimeEps) == runtimeEps \o fileEps

\* all = append(all, cm.config.Endpoints...); all = append(all, runtime...)
FileThenRuntime(fileEps, runtimeEps) == fileEps \o runtimeEps

\* GetAllEndpoints: the elements of the slice it returns, which is built in
\* arrays of its own
AllEndpoints(c, h) ==
    FileThenRuntime(IF c.config # 0 THEN ConfigEndpoints(c.config) ELSE <<>>,
                    SliceItems(h, c.runtimeEndpoints))

\* strings.EqualFold on the method names that occur
EqualFold(a, b) == ToLower(a) = ToLower(b)

\* matchPath for patterns without "/*": as many segments, and each either a
\* ":param" or equal
matchPath(pattern, requestPath) ==
    /\ Len(pattern) = Len(requestPath)
    /\ \A i \in 1..Len(pattern) :
          pattern[i] \in {":id"} \/ pattern[i] = requestPath[i]

\* findEndpoint: position of the first endpoint that matches, 0 for nil
RECURSIVE FindFrom(_, _, _, _)
FindFrom(endpoints, requestPath, method, i) ==
    IF i > Len(endpoints) THEN 0
    ELSE IF endpoints[i].Method # "ANY" /\ ~EqualFold(endpoints[i].Method, method)
         THEN FindFrom(endpoints, requestPath, method, i + 1)
         ELSE IF matchPath(endpoints[i].Path, requestPath) THEN i
              ELSE FindFrom(endpoints, requestPath, method, i + 1)

findEndpoint(endpoints, requestPath, method) == FindFrom(endpoints, requestPath, method, 1)

CmRet(op, index, ep, ok, items, found) ==
    [op |-> op, index |-> index, ep |-> ep, ok |-> ok, items |-> items,
     found |-> found]

MayCall == cmOps < MaxCmOps

SetConfig(config) ==
    /\ MayCall
    /\ cm' = [cm EXCEPT !.config = config, !.loadedAt = cmOps + 1]
    /\ cmRet' = CmRet("SetConfig", 0, ZeroEndpoint, TRUE, <<>>, 0)
    /\ cmOps' = cmOps + 1
    /\ UNCHANGED <<heap, cmHeld, notCm>>

AddRuntimeEndpoint(ep, grow) ==
    /\ MayCall
    /\ LET x == AppendOne(heap, cm.runtimeEndpoints, ep, grow)
       IN  /\ heap' = x.heap
           /\ cm' = [cm EXCEPT !.runtimeEndpoints = x.slice]
    /\ cmRet' = CmRet("Add", 0, ep, TRUE, <<>>, 0)
    /\ cmOps' = cmOps + 1
    /\ UNCHANGED <<cmHeld, notCm>>

RemoveRuntimeEndpoint(index) ==
    /\ MayCall
    /\ IF index < 0 \/ index >= cm.runtimeEndpoints.len
       THEN /\ cmRet' = CmRet("Remove", index, ZeroEndpoint, FALSE, <<>>, 0)
            /\ UNCHANGED <<cm, heap>>
       ELSE LET x == RemoveAt(heap, cm.runtimeEndpoints, index)
            IN  /\ heap' = x.heap
                /\ cm' = [cm EXCEPT !.runtimeEndpoints = x.slice]
                /\ cmRet' = CmRet("Remove", index, ZeroEndpoint, TRUE, <<>>, 0)
    /\ cmOps' = cmOps + 1
    /\ UNCHANGED <<cmHeld, notCm>>

UpdateRuntimeEndpoint(index, ep) ==
    /\ MayCall
    /\ IF index < 0 \/ index >= cm.runtimeEndpoints.len
       THEN /\ cmRet' = CmRet("Update", index, ep, FALSE, <<>>, 0)
            /\ UNCHANGED heap
       ELSE /\ heap' = [heap EXCEPT ![cm.runtimeEndpoints.arr][index + 1] = ep]
            /\ cmRet' = CmRet("Update", index, ep, TRUE, <<>>, 0)
    /\ cmOps' = cmOps + 1
    /\ UNCHANGED <<cm, cmHeld, notCm>>

GetRuntimeEndpoints ==
    /\ MayCall
    /\ LET x == CopyOfSlice(heap, cm.runtimeEndpoints)
       IN  /\ heap' = x.heap
           /\ cmHeld' = Append(cmHeld, [slice |-> x.slice,
                                        items |-> SliceItems(x.heap, x.slice)])
           /\ cmRet' = CmRet("GetRuntime", 0, ZeroEndpoint, TRUE,
                             SliceItems(x.heap, x.slice), 0)
    /\ cmOps' = cmOps + 1
    /\ UNCHANGED <<cm, notCm>>

\* handleRequest: GetAllEndpoints, then findEndpoint on what it returned
Lookup(method, requestPath) ==
    /\ MayCall
    /\ LET all == AllEndpoints(cm, heap)
       IN  cmRet' = CmRet("Lookup", 0,
                          [Method |-> method, Path |-> requestPath, Src |-> ""],
                          TRUE, all, findEndpoint(all, requestPath, method))
    /\ cmOps' = cmOps + 1
    /\ UNCHANGED <<cm, heap, cmHeld, notCm>>

RuntimeIndices == -1..2

LookupRequests == { <<"GET", <<"a">>>>, <<"GET", <<"a", "7">>>>, <<"POST", <<"c">>>> }

NextManager ==
    \/ \E config \in ValidConfigs : SetConfig(config)
    \/ \E ep \in RuntimePool, grow \in 0..1 : AddRuntimeEndpoint(ep, grow)
    \/ \E index \in RuntimeIndices : RemoveRuntimeEndpoint(index)
    \/ \E index \in RuntimeIndices :
          UpdateRuntimeEndpoint(index, [Method |-> "GET", Path |-> <<"a">>, Src |-> "r3"])
    \/ GetRuntimeEndpoints
    \/ \E q \in LookupRequests : Lookup(q[1], q[2])

SpecManager == Init /\ [][NextManager]_vars

(***************************** hot reload ***********************************)
\* what the configuration file can be: missing (0), not parseable (-1), or
\* the text of a configuration
FileStates == {0, -1} \cup ValidConfigs

\* LoadConfig(w.configPath): (nil, err) unless the file reads and parses
LoadConfig(f) ==
    IF f \in ValidConfigs THEN [err |-> FALSE, cfg |-> f] ELSE [err |-> TRUE, cfg |-> 0]

\* a faulty variant: the result of LoadConfig is set whatever err is
AfterLoadAlwaysSet(loaded) == "set"

\* if err != nil { return }
AfterLoad(loaded) == IF loaded.err THEN "unlock" ELSE "set"

\* the file is written, replaced or removed
ChangeFile(f) ==
    /\ f # cfgFile
    /\ cfgFile' = f
    /\ UNCHANGED <<reloader, wmu, cmVars, notReload>>

\* reloadConfig: w.mu.Lock()
LockWatcher(t) ==
    /\ reloader[t].pc = "idle"
    /\ cmOps < MaxReloads
    /\ wmu = ""
    /\ wmu' = t
    /\ reloader' = [reloader EXCEPT ![t].pc = "load"]
    /\ cmOps' = cmOps + 1
    /\ UNCHANGED <<cfgFile, cm, heap, cmRet, cmHeld, notReload>>

\* newCfg, err := LoadConfig(w.configPath)
LoadFile(t) ==
    /\ reloader[t].pc = "load"
    /\ LET loaded == LoadConfig(cfgFile)
       IN  reloader' = [reloader EXCEPT ![t] = [pc |-> AfterLoad(loaded), loaded |-> loaded]]
    /\ UNCHANGED <<cfgFile, wmu, cmVars, notReload>>

\* w.manager.SetConfig(newCfg)
ApplyLoaded(t) ==
    /\ reloader[t].pc = "set"
    /\ cm' = [cm EXCEPT !.config = reloader[t].loaded.cfg, !.loadedAt = cmOps + 1]
    /\ reloader' = [reloader EXCEPT ![t].pc = "unlock"]
    /\ UNCHANGED <<cfgFile, wmu, heap, cmRet, cmHeld, cmOps, notReload>>

\* the deferred w.mu.Unlock()
UnlockWatcher(t) ==
    /\ reloader[t].pc = "unlock"
    /\ wmu' = ""
    /\ reloader' = [reloader EXCEPT ![t] = [pc |-> "idle", loaded |-> 0]]
    /\ UNCHANGED <<cfgFile, cmVars, notReload>>

NextReload ==
    \/ \E f \in FileStates : ChangeFile(f)
    \/ \E t \in Reloaders : LockWatcher(t)
    \/ \E t \in Reloaders : LoadFile(t)
    \/ \E t \in Reloaders : ApplyLoaded(t)
    \/ \E t \in Reloaders : UnlockWatcher(t)

SpecReload == Init /\ [][NextReload]_vars

(***************** ExtractValues on drawn requests **************************)
\* bodies: none, an object, an object cut off after its first member, an
\* object without the wanted member, and text that is no JSON
RequestBodies ==
    { <<>>,
      <<"{", "a", "1", "b", "2", "}">>,
      <<"{", "a", "1">>,
      <<"{", "b", "2", "}">>,
      <<"n", "o">> }

Requests ==
    [headers : {NoMap, [n \in {"X"} |-> <<"h">>]},
     query : {NoMap, [n \in {"q"} |-> <<"v">>]},
     params : {NoMap, [n \in {"id"} |-> <<"7">>]},
     body : {StreamOf(b) : b \in RequestBodies}]

PathParamMaps == {NoMap, [n \in {"id"} |-> <<"9">>]}

SelectorPool ==
    { [Name |-> "x", Type |-> "body", Key |-> "a"],
      [Name |-> "y", Type |-> "body", Key |-> "b"],
      [Name |-> "y", Type |-> "Body", Key |-> "a"],
      [Name |-> "x", Type |-> "body", Key |-> "zz"],
      [Name |-> "x", Type |-> "header", Key |-> "X"],
      [Name |-> "y", Type |-> "query", Key |-> "q"],
      [Name |-> "x", Type |-> "path", Key |-> "id"],
      [Name |-> "y", Type |-> "cookie", Key |-> "s"] }

SelectorLists == UNION {[1..n -> SelectorPool] : n \in 0..MaxSelectors}

InitExtract ==
    /\ steps = EmptySteps
    /\ ApiIdle
    /\ ConcIdle
    /\ MatchIdle
    /\ HttpIdle
    /\ RecIdle
    /\ CmIdle
    /\ pArgs \in [c : Requests, selectors : SelectorLists, pathParams : PathParamMaps]
    /\ pResult = NotCalled

\* ExtractValues(c, selectors, pathParams)
ExtractCall ==
    /\ ~pResult.done
    /\ LET x == Extraction(pArgs.c, pArgs.selectors, pArgs.pathParams)
       IN  pResult' = [done |-> TRUE, values |-> x.values, body |-> x.body]
    /\ UNCHANGED <<pArgs, notPure>>

NextExtract == ExtractCall

SpecExtract == InitExtract /\ [][NextExtract]_vars

(************ the recording middleware in front of the handler *************)
\* maxBodyBytes when the configuration gives none
DefaultMaxBodyBytes == 65536

\* the maxBodyBytes RequestRecorder is built with
BodyLimits == {0, 3, 4, 6}

\* if maxBodyBytes <= 0 { maxBodyBytes = 65536 }
EffectiveLimit(maxBodyBytes) ==
    IF maxBodyBytes <= 0 THEN DefaultMaxBodyBytes ELSE maxBodyBytes

\* io.ReadAll(io.LimitReader(body, n)): at most n bytes of what is left
LimitedReadAll(body, n) ==
    LET left == Len(body.bytes) - body.pos
        take == IF left < n THEN left ELSE n
    IN  [data |-> SubSeq(body.bytes, body.pos + 1, body.pos + take),
         body |-> [body EXCEPT !.pos = body.pos + take, !.reads = body.reads + 1]]

\* the request on its way: sent is what the client sent, body what
\* c.Request.Body now yields, reqBody what the middleware recorded, seen the
\* bytes the handler read, values what ExtractValues returned
InitMiddleware ==
    /\ steps = EmptySteps
    /\ ApiIdle
    /\ ConcIdle
    /\ MatchIdle
    /\ HttpIdle
    /\ RecIdle
    /\ CmIdle
    /\ pArgs \in [sent : RequestBodies, maxBodyBytes : BodyLimits,
                   excluded : BOOLEAN, selectors : SelectorLists]
    /\ pResult = [done |-> FALSE, pc |-> "middleware", body |-> StreamOf(pArgs.sent),
                  reqBody |-> <<>>, seen |-> <<>>, values |-> NoMap]

\* the handler function RequestRecorder returns, up to c.Next(): a request
\* without body has http.NoBody
RecorderMiddleware ==
    /\ pResult.pc = "middleware"
    /\ pResult' =
          IF pArgs.excluded \/ pArgs.sent = <<>>
          THEN [pResult EXCEPT !.pc = "handler"]
          ELSE LET rd == LimitedReadAll(pResult.body,
                                        EffectiveLimit(pArgs.maxBodyBytes))
               IN  [pResult EXCEPT !.pc = "handler",
                                   !.reqBody = rd.data,
                                   !.body = StreamOf(rd.data)]
    /\ UNCHANGED <<pArgs, notPure>>

\* handleRequest: bodyBytes, err := io.ReadAll(c.Request.Body), and the body
\* set to a buffer of bodyBytes
HandlerReadsBody ==
    /\ pResult.pc = "handler"
    /\ LET rd == ReadAll(pResult.body)
       IN  pResult' = [pResult EXCEPT !.pc = "extract",
                                      !.seen = rd.data,
                                      !.body = StreamOf(rd.data)]
    /\ UNCHANGED <<pArgs, notPure>>

\* handleRequest: values := ExtractValues(c, selectors, pathParams)
HandlerExtracts ==
    /\ pResult.pc = "extract"
    /\ LET c == [headers |-> NoMap, query |-> NoMap, params |-> NoMap,
                 body |-> pResult.body]
           x == Extraction(c, pArgs.selectors, NoMap)
       IN  pResult' = [pResult EXCEPT !.pc = "done", !.done = TRUE,
                                      !.values = x.values, !.body = x.body]
    /\ UNCHANGED <<pArgs, notPure>>

NextMiddleware ==
    \/ RecorderMiddleware
    \/ HandlerReadsBody
    \/ HandlerExtracts

SpecMiddleware == InitMiddleware /\ [][NextMiddleware]_vars

(***************** matchRange on range strings of any bracketing ************)
OpeningChars == {"[", "(", "{", "x"}
ClosingChars == {"]", ")", "}", "y"}

\* first character, min, "," (with or without space), max, last character
BracketedRanges ==
    {[first |-> f, last |-> l, str |-> <<f>> \o lo \o sep \o hi \o <<l>>] :
        f \in OpeningChars, l \in ClosingChars,
        lo \in BoundNumerals, hi \in BoundNumerals,
        sep \in {<<",">>, <<",", " ">>}}

InitShape ==
    /\ steps = EmptySteps
    /\ ApiIdle
    /\ ConcIdle
    /\ MatchIdle
    /\ HttpIdle
    /\ RecIdle
    /\ CmIdle
    /\ pArgs \in [target : RangeTargets, range : BracketedRanges]
    /\ pResult = NotCalled

NextShape == CheckRange

SpecShape == InitShape /\ [][NextShape]_vars

(***************** ResponseBuilder.Build on drawn configurations ***********)
BuildStatusCodes == {0, 404}
BuildContentTypes == { <<>>, <<"text/plain">> }

BuildHeaders ==
    { NoHeaders,
      [k \in {"Content-Type"} |-> <<"text/html">>],
      [k \in {"Content-Type"} |-> <<"text/", "{{.action}}">>],
      [k \in {"X-Id"} |-> <<"{{.action}}">>] }

BuildFiles == {"", "a.json", "missing.json"}

BuildRandomLists ==
    { <<>>,
      << [File |-> "d.json", Weight |-> 1, StatusCode |-> 0, DelayMs |-> 0],
         [File |-> "", Weight |-> 1, StatusCode |-> 503, DelayMs |-> 5] >>,
      << [File |-> "missing.json", Weight |-> 0, StatusCode |-> 201, DelayMs |-> 0] >> }

BuildConfigs ==
    [ResponseFile : BuildFiles, StatusCode : BuildStatusCodes, DelayMs : {0},
     Headers : BuildHeaders, ContentType : BuildContentTypes,
     TemplateEnabled : BOOLEAN, TemplateEngine : {"", "go"},
     RandomResponses : BuildRandomLists]

BuildValues == [n \in {"action"} |-> <<"p", "q">>]

\* what rand.Intn can return for the list of cfg
BuildDraws(cfg) ==
    LET rs == cfg.RandomResponses
        total == TotalWeight(rs)
    IN  { [NoDraw EXCEPT !.order = <<"action">>, !.r = r, !.u = u] :
            r \in (IF total > 0 THEN 0..(total - 1) ELSE {0}),
            u \in (IF total = 0 /\ Len(rs) > 0 THEN 0..(Len(rs) - 1) ELSE {0}) }

InitBuild ==
    /\ steps = EmptySteps
    /\ ApiIdle
    /\ ConcIdle
    /\ MatchIdle
    /\ HttpIdle
    /\ RecIdle
    /\ CmIdle
    /\ pArgs \in BuildConfigs
    /\ pResult = NotCalled

\* one call rb.Build(cfg, values)
BuildCall(draw) ==
    /\ ~pResult.done
    /\ pResult' = [done |-> TRUE, draw |-> draw,
                   picked |-> selectRandomResponse(pArgs.RandomResponses, draw.r, draw.u),
                   res |-> Build(pArgs, BuildValues, draw)]
    /\ UNCHANGED <<pArgs, notPure>>

NextBuild == \E draw \in BuildDraws(pArgs) : BuildCall(draw)

SpecBuild == InitBuild /\ [][NextBuild]_vars

(***************** what the call history says the store holds *************)
\* call c removes the entry of the pair (s, p)
Removes(c, s, p) ==
    \/ c.op = "ResetScenario" /\ c.scenario = s
    \/ c.op = "ResetPartition" /\ c.scenario = s /\ c.partition = p

\* positions of the SetStep(s, p, _) calls that no later reset removed
LiveSets(s, p) ==
    {i \in 1..Len(calls) :
        /\ calls[i].op = "SetStep"
        /\ calls[i].scenario = s
        /\ calls[i].partition = p
        /\ \A j \in (i + 1)..Len(calls) : ~Removes(calls[j], s, p)}

LastLiveStep(s, p) ==
    LET i == CHOOSE i \in LiveSets(s, p) : \A j \in LiveSets(s, p) : j <= i
    IN  calls[i].step

ExpectedStep(s, p) ==
    IF LiveSets(s, p) = {} THEN "idle" ELSE LastLiveStep(s, p)

LivePairs == {sp \in Scenarios \X Partitions : LiveSets(sp[1], sp[2]) # {}}

(***************************************************************************)
(* C1: after any sequence of SetStep, ResetScenario and ResetPartition     *)
(* calls, GetStep(s, p) returns the step of the most recent SetStep(s, p, _)*)
(* that no later ResetScenario(s) or ResetPartition(s, p) removed, and      *)
(* "idle" when there is none.                                               *)
(***************************************************************************)
C1_GetStepReturnsLastSet ==
    \A s \in Scenarios, p \in Partitions :
        GetStepOf(steps, s, p) = ExpectedStep(s, p)

(***************************************************************************)
(* C2: ResetScenario(s) makes every pair of scenario s read "idle" and      *)
(* leaves what GetStep returns for every pair of every other scenario       *)
(* unchanged, also when the other scenario's name starts with s.            *)
(***************************************************************************)
C2_ResetScenarioExact ==
    [][\A s \in Scenarios :
        ResetScenario(s) =>
            \A s2 \in Scenarios, p \in Partitions :
                GetStepOf(steps', s2, p) =
                    IF s2 = s THEN "idle" ELSE GetStepOf(steps, s2, p)]_vars

(***************************************************************************)
(* C3: ResetPartition(s, p) makes GetStep(s, p) return "idle" and leaves    *)
(* what GetStep returns for every other pair (other partitions of s, all    *)
(* other scenarios) unchanged.                                              *)
(***************************************************************************)
C3_ResetPartitionExact ==
    [][\A s \in Scenarios, p \in Partitions :
        ResetPartition(s, p) =>
            /\ GetStepOf(steps', s, p) = "idle"
            /\ \A s2 \in Scenarios, p2 \in Partitions :
                  <<s2, p2>> # <<s, p>> =>
                      GetStepOf(steps', s2, p2) = GetStepOf(steps, s2, p2)]_vars

(***************************************************************************)
(* C4: List returns exactly one (scenario, partition, step) triple for each *)
(* pair set by SetStep and not since reset, with the step GetStep returns,  *)
(* and nothing else; a GetStep call leaves List unchanged.                  *)
(***************************************************************************)
ExpectedList ==
    SetToBag({[Scenario |-> sp[1], PartitionKey |-> sp[2],
               CurrentStep |-> ExpectedStep(sp[1], sp[2])] : sp \in LivePairs})

C4_ListIsLivePairs ==
    /\ [](ListOf(steps) = ExpectedList)
    /\ [][\A s \in Scenarios, p \in Partitions :
            GetStep(s, p) => ListOf(steps') = ListOf(steps)]_vars

(***************************************************************************)
(* C5: under every interleaving of concurrent store calls each call takes   *)
(* effect atomically: a call that changes the map is never inside its       *)
(* locked section together with any other call; when two concurrent         *)
(* SetStep calls on the same (scenario, partition) have returned, GetStep    *)
(* gives the step of the one that acquired the lock last; two concurrent     *)
(* SetStep calls on different partitions of a scenario each leave their      *)
(* own step stored.                                                          *)
(***************************************************************************)
InLocked(t) == g[t].pc \in {"body", "unlock"}

Mutates(op) == op \in {"SetStep", "ResetScenario", "ResetPartition"}

AllReturned == \A t \in Goroutines : g[t].pc = "done"

AcquiredAt(t) == CHOOSE i \in 1..Len(acquired) : acquired[i] = t

\* only t1 and t2 change the map
OnlyWriters(t1, t2) ==
    \A t \in Goroutines \ {t1, t2} : ~Mutates(g[t].call.op)

C5_WritersExclusive ==
    \A t1, t2 \in Goroutines :
        (t1 # t2 /\ InLocked(t1) /\ InLocked(t2)) =>
            (~Mutates(g[t1].call.op) /\ ~Mutates(g[t2].call.op))

C5_LastWriterWins ==
    \A t1, t2 \in Goroutines :
        LET c1 == g[t1].call
            c2 == g[t2].call
        IN  (/\ AllReturned
             /\ t1 # t2
             /\ OnlyWriters(t1, t2)
             /\ c1.op = "SetStep" /\ c2.op = "SetStep"
             /\ c1.scenario = c2.scenario /\ c1.partition = c2.partition
             /\ AcquiredAt(t1) < AcquiredAt(t2))
            => GetStepOf(steps, c2.scenario, c2.partition) = c2.step

C5_PartitionsIndependent ==
    \A t1, t2 \in Goroutines :
        LET c1 == g[t1].call
            c2 == g[t2].call
        IN  (/\ AllReturned
             /\ t1 # t2
             /\ OnlyWriters(t1, t2)
             /\ c1.op = "SetStep" /\ c2.op = "SetStep"
             /\ c1.scenario = c2.scenario /\ c1.partition # c2.partition)
            => /\ GetStepOf(steps, c1.scenario, c1.partition) = c1.step
               /\ GetStepOf(steps, c2.scenario, c2.partition) = c2.step

SessionOf(x) ==
    IF Endpoints[x.ep].ScenarioKey = "" THEN <<>>
    ELSE GetHeader(x.headers, "X-Session")

OnScenario(x) == x.kind = "mock" /\ x.scenario # <<>>

\* the request matched a rule that declares a next step
Advances(x) ==
    /\ OnScenario(x)
    /\ x.rule # 0
    /\ Endpoints[x.ep].Rules[x.rule].NextStep # ""

NextStepOf(x) == Endpoints[x.ep].Rules[x.rule].NextStep

AdvancesSame(i, j) ==
    /\ Advances(served[i])
    /\ served[i].scenario = served[j].scenario
    /\ SessionOf(served[i]) = SessionOf(served[j])

\* the latest exchange before the j-th that advanced its partition, 0 if none
LastAdvance(j) ==
    LET before == {i \in 1..(j - 1) : AdvancesSame(i, j)}
    IN  IF before = {} THEN 0
        ELSE CHOOSE i \in before : \A k \in before : k <= i

ResetBetween(i, j) == \E k \in (i + 1)..(j - 1) : served[k].kind = "reset"

C6_StepPerPartition ==
    \A j \in 1..Len(served) :
        OnScenario(served[j]) =>
            LET i == LastAdvance(j)
            IN  /\ i = 0 => served[j].step = defaultStep
                /\ (i # 0 /\ ~ResetBetween(i, j)) =>
                        served[j].step = NextStepOf(served[i])

\* a request with session "q" advanced to "x"; then a request without
\* session saw "idle", then the next one with session "q" saw "x", and a
\* request of the endpoint without partition selector that carried the
\* session header saw the step of the empty partition
C6_Witness ==
    \E i, j, k, l \in 1..Len(served) :
        /\ i < k /\ k < j /\ j < l
        /\ Advances(served[i]) /\ SessionOf(served[i]) = <<"q">>
        /\ OnScenario(served[k]) /\ SessionOf(served[k]) = <<>>
        /\ served[k].ep = 1 /\ served[k].step = defaultStep
        /\ OnScenario(served[j]) /\ SessionOf(served[j]) = <<"q">>
        /\ LastAdvance(j) = i /\ served[j].step = "x"
        /\ served[l].ep = 2 /\ "X-Session" \in DOMAIN served[l].headers
        /\ served[l].step = defaultStep

(***************************************************************************)
(* C7.  When the matched rule declares a next step, the transition is in    *)
(* the store by the time the response is built, and it is still there when  *)
(* the request has ended, also when Build failed and the request ended with *)
(* status 500.                                                              *)
(***************************************************************************)
StoredFor(scenario, partition, step) ==
    GetStepOf(steps, scenario, partition) = step

C7_StoredWhenBuilding ==
    \A r \in Slots :
        LET e == Endpoints[req[r].ep]
            m == req[r].matchedRule
        IN  (req[r].pc = "build" /\ e.Scenario # <<>> /\ m # 0
                /\ e.Rules[m].NextStep # "") =>
            StoredFor(e.Scenario,
                      IF e.ScenarioKey = "" THEN <<>>
                      ELSE GetHeader(req[r].headers, "X-Session"),
                      e.Rules[m].NextStep)

C7_StoredAfterResponse ==
    (InFlight = {} /\ served # <<>> /\ Advances(served[Len(served)])) =>
        LET x == served[Len(served)]
        IN  StoredFor(x.scenario, SessionOf(x), NextStepOf(x))

C7_TransitionBeforeBuild == C7_StoredWhenBuilding /\ C7_StoredAfterResponse

\* the request matched the rule of step "x", the store already says "y", and
\* the response was the error response
C7_Witness ==
    /\ InFlight = {}
    /\ served # <<>>
    /\ Advances(served[Len(served)])
    /\ served[Len(served)].status = 500
    /\ NextStepOf(served[Len(served)]) = "y"
    /\ StoredFor(<<"s">>, SessionOf(served[Len(served)]), "y")

(***************************************************************************)
(* C8.  A step of request handling changes the store only by the SetStep of *)
(* a request on a scenario endpoint whose matched rule declares a non-empty *)
(* next step, and such a step removes no entry; every other change of the   *)
(* store is an explicit reset.  So a request that matched no rule, matched  *)
(* a rule with empty next step, or was served by an endpoint without        *)
(* scenario completes with the store as it was when it arrived.             *)
(***************************************************************************)
IsTransitionOf(r) ==
    LET e == Endpoints[req[r].ep]
        m == req[r].matchedRule
    IN  /\ req[r].pc \notin {"idle", "build"}
        /\ req'[r].pc = "build"
        /\ e.Scenario # <<>>
        /\ m # 0
        /\ e.Rules[m].NextStep # ""
        /\ DOMAIN steps \subseteq DOMAIN steps'
        /\ \A k \in DOMAIN steps :
               k # buildKey(e.Scenario, req[r].partitionValue) => steps'[k] = steps[k]

IsReset ==
    /\ Len(served') = Len(served) + 1
    /\ served'[Len(served')].kind = "reset"
    /\ req' = req

C8_StoreChange ==
    steps' # steps => (IsReset \/ \E r \in Slots : IsTransitionOf(r))

C8_OnlyDeclaredTransitions == [][C8_StoreChange]_vars

\* three requests have completed that declared no transition: one matched a
\* rule with empty next step, one matched no rule, one was on the endpoint
\* without scenario and matched a rule that names a next step; the store is
\* still empty
C8_Witness ==
    /\ steps = EmptySteps
    /\ InFlight = {}
    /\ \E i, j, k \in 1..Len(served) :
        /\ served[i].kind = "mock" /\ served[i].ep = 1 /\ served[i].rule = 3
        /\ served[j].kind = "mock" /\ served[j].ep = 3 /\ served[j].rule = 1
        /\ served[k].kind = "mock" /\ served[k].ep = 1 /\ served[k].rule = 0

(***************************************************************************)
(* C9: MatchRules returns the rule with the smallest index i for which      *)
(* matchRule(values, rules[i]) is true, and none (0) when no rule           *)
(* satisfies matchRule.                                                     *)
(***************************************************************************)
Satisfied == {i \in 1..Len(mRules) : mResult.each[i]}

C9_FirstMatchWins ==
    mResult.done =>
        /\ \A i \in 1..Len(mRules) : mResult.each[i] = matchRule(mValues, mRules[i])
        /\ IF Satisfied = {} THEN mResult.rule = 0
           ELSE /\ mResult.rule \in Satisfied
                /\ \A j \in Satisfied : mResult.rule <= j

\* two different rules are both satisfied and the earlier one is returned
C9_Witness ==
    /\ mResult.done
    /\ Len(mRules) = 2
    /\ mRules[1] # mRules[2]
    /\ Satisfied = {1, 2}
    /\ mResult.rule = 1

(***************************************************************************)
(* C10: for a rule with logic "and" (or empty logic) and no condition       *)
(* groups, matchRule is true iff every direct condition passes (true for    *)
(* an empty list), a condition on a selector that was not extracted being   *)
(* evaluated against the empty string; changing one passing condition of a  *)
(* matching rule to a failing one makes the rule not match.                 *)
(***************************************************************************)
IsAndRule(rule) ==
    /\ ToLower(rule.ConditionLogic) \in {"", "and"}
    /\ Len(rule.ConditionGroups) = 0

Passes(values, cond) ==
    matchCondition(IF cond.Selector \in DOMAIN values
                   THEN values[cond.Selector] ELSE <<>>, cond)

C10_AndIsAll ==
    mResult.done =>
        \A r \in 1..Len(mRules) :
            IsAndRule(mRules[r]) =>
                (mResult.each[r] <=>
                    \A k \in 1..Len(mRules[r].Conditions) :
                        Passes(mValues, mRules[r].Conditions[k]))

C10_FlipOneCondition ==
    \A r \in 1..MaxRules, k \in 1..2, c \in CondPool :
        (/\ ReplaceCondition(r, k, c)
         /\ IsAndRule(mRules[r])
         /\ mResult.each[r]
         /\ ~Passes(mValues, c))
        => ~mResult'.each[r]

C10_AndSemantics == [](C10_AndIsAll) /\ [][C10_FlipOneCondition]_vars

\* a matching "and" rule whose second condition is on a selector that was
\* not extracted, and a rule that stopped matching when one condition failed
C10_Witness ==
    /\ mResult.done
    /\ Len(mRules) = 2
    /\ IsAndRule(mRules[1]) /\ IsAndRule(mRules[2])
    /\ Len(mRules[1].Conditions) = 2
    /\ mRules[1].Conditions[2].Selector \notin DOMAIN mValues
    /\ mResult.each[1]
    /\ Len(mRules[2].Conditions) = 2
    /\ Passes(mValues, mRules[2].Conditions[1])
    /\ ~Passes(mValues, mRules[2].Conditions[2])
    /\ ~mResult.each[2]

(***************************************************************************)
(* C11: for a rule with logic "or" and no condition groups, matchRule is    *)
(* true iff at least one direct condition passes; in particular it is false *)
(* when the condition list is empty, so that such a rule never matches.     *)
(***************************************************************************)
IsOrRule(rule) ==
    /\ ToLower(rule.ConditionLogic) = "or"
    /\ Len(rule.ConditionGroups) = 0

C11_OrIsAny ==
    mResult.done =>
        \A r \in 1..Len(mRules) :
            IsOrRule(mRules[r]) =>
                (mResult.each[r] <=>
                    \E k \in 1..Len(mRules[r].Conditions) :
                        Passes(mValues, mRules[r].Conditions[k]))

(***************************************************************************)
(* C12: for a rule with condition groups, matchRule is true iff the direct  *)
(* conditions are satisfied under the rule's logic and every group is       *)
(* satisfied under its own logic, where "and" (the default) is satisfied    *)
(* when all conditions pass and "or" when at least one passes; so one       *)
(* failing group makes the rule not match, whatever the rule's own logic.   *)
(***************************************************************************)
SatisfiedUnder(logic, values, conditions) ==
    IF ToLower(logic) = "or"
    THEN \E k \in 1..Len(conditions) : Passes(values, conditions[k])
    ELSE \A k \in 1..Len(conditions) : Passes(values, conditions[k])

C12_GroupsAreConjoined ==
    mResult.done =>
        \A r \in 1..Len(mRules) :
            Len(mRules[r].ConditionGroups) > 0 =>
                (mResult.each[r] <=>
                    /\ SatisfiedUnder(mRules[r].ConditionLogic, mValues,
                                      mRules[r].Conditions)
                    /\ \A n \in 1..Len(mRules[r].ConditionGroups) :
                           SatisfiedUnder(mRules[r].ConditionGroups[n].Logic, mValues,
                                          mRules[r].ConditionGroups[n].Conditions))

(***************************************************************************)
(* C13: MatchRulesForStep returns the rule with the smallest index whose    *)
(* step filter is "", "any" or the current step and for which matchRule is  *)
(* true, and none when there is no such rule; a rule whose step filter      *)
(* names another step is never returned.                                    *)
(***************************************************************************)
Eligible ==
    {i \in 1..Len(mRules) :
        /\ mRules[i].ScenarioStep \in {"", "any", mResult.step}
        /\ mResult.each[i]}

C13_FirstEligibleRule ==
    mResult.done =>
        /\ \A i \in 1..Len(mRules) : mResult.each[i] = matchRule(mValues, mRules[i])
        /\ IF Eligible = {} THEN mResult.rule = 0
           ELSE /\ mResult.rule \in Eligible
                /\ \A j \in Eligible : mResult.rule <= j

\* the first rule's conditions match but its step filter names another step;
\* the second rule is returned
C13_Witness ==
    /\ mResult.done
    /\ Len(mRules) = 2
    /\ mResult.each[1]
    /\ mRules[1].ScenarioStep = "idle"
    /\ mResult.step = "x"
    /\ mRules[2].ScenarioStep = "x"
    /\ mResult.rule = 2

(***************************************************************************)
(* C14: the matched-rule annotation of a request is "rule_<i>" with i the   *)
(* zero-based position, in the endpoint's rule list, of the rule whose      *)
(* response specification is served, never "rule_-1"; it is "default"       *)
(* exactly when no rule matched and the endpoint's default is served.       *)
(***************************************************************************)
C14_AnnotationNamesServedRule ==
    \A n \in 1..Len(served) :
        served[n].kind = "mock" =>
            LET x == served[n]
                e == Endpoints[x.ep]
            IN  /\ (x.matched_rule = <<"default">>) <=> (x.rule = 0)
                /\ x.rule = 0 => x.file = e.Default.ResponseFile
                /\ x.rule # 0 =>
                       /\ x.matched_rule[1] = "rule_"
                       /\ x.matched_rule[2] \in 0..(Len(e.Rules) - 1)
                       /\ x.matched_rule[2] + 1 = x.rule
                       /\ x.file = e.Rules[x.matched_rule[2] + 1].ResponseFile

\* the second and the third rule of the first endpoint were annotated as
\* rule_1 and rule_2, and a request without matching rule as default
C14_Witness ==
    \E i, j, k \in 1..Len(served) :
        /\ served[i].kind = "mock" /\ served[i].matched_rule = <<"rule_", 1>>
        /\ served[i].file = "missing.json"
        /\ served[j].kind = "mock" /\ served[j].matched_rule = <<"rule_", 2>>
        /\ served[k].kind = "mock" /\ served[k].matched_rule = <<"default">>
        /\ served[k].file = "d.json"

(***************************************************************************)
(* C19: with the "go" engine a template that fails to parse or to execute   *)
(* yields what the simple engine yields on the same content and values; an  *)
(* empty or unknown engine name selects the simple engine.  The simple      *)
(* engine's output is the content with every placeholder of a built-in or   *)
(* of an extracted value replaced by that value (stated for values that     *)
(* contain no placeholder themselves) and everything else left as it is.    *)
(***************************************************************************)
SimpleOutputOf(c, values, builtins) ==
    CASE c = "{{.timestamp}}" -> builtins["timestamp"]
      [] c = "{{.uuid}}" -> builtins["uuid"]
      [] c = "{{.request_id}}" -> builtins["request_id"]
      [] \E n \in DOMAIN values : c = Placeholder(n) ->
            values[CHOOSE n \in DOMAIN values : c = Placeholder(n)]
      [] OTHER -> <<c>>

RECURSIVE Substituted(_, _, _)
Substituted(content, values, builtins) ==
    IF content = <<>> THEN <<>>
    ELSE SimpleOutputOf(Head(content), values, builtins)
            \o Substituted(Tail(content), values, builtins)

PlainValues(values) ==
    \A n \in DOMAIN values : \A i \in 1..Len(values[n]) :
        \A m \in FieldNames : values[n][i] # Placeholder(m)

GoEngineFails(args) ==
    /\ ToLower(args.engine) = "go"
    /\ \E i \in 1..Len(args.content) :
          args.content[i] \in {"{{", "{{nosuch}}", "{{index .action 9}}"}

C19_FallbackIsSimple ==
    (pResult.done /\ (GoEngineFails(pArgs) \/ ToLower(pArgs.engine) # "go")) =>
            /\ pResult.out = replaceSimple(pArgs.content, pArgs.values, pArgs.draw)
            /\ PlainValues(pArgs.values) =>
                  pResult.out =
                      Substituted(pArgs.content, pArgs.values,
                                  getBuiltinVariables(pArgs.draw.uuid, pArgs.draw.now))

\* the go engine could not parse the content, and the placeholder of the
\* extracted value was substituted all the same
C19_Witness ==
    /\ pResult.done
    /\ pArgs.engine = "go"
    /\ pArgs.content = <<"{{.action}}", "{{">>
    /\ pArgs.values = [n \in {"action"} |-> <<"p", "q">>]
    /\ pResult.out = <<"p", "q", "{{">>

(***************************************************************************)
(* C20: on a well-formed range with bounds min and max and a numeric        *)
(* target v, matchRange is true iff v is within the bounds, "[" and "]"     *)
(* admitting the bound itself and "(" and ")" excluding it; a target that   *)
(* is no number, a bound that is no number, or a number of segments other   *)
(* than two gives false.  The numbers are those the numerals denote.        *)
(***************************************************************************)
WithinBounds(v, range) ==
    /\ IF range.lb = "[" THEN LessEq(NumberOf(range.min), v)
       ELSE Less(NumberOf(range.min), v)
    /\ IF range.rb = "]" THEN LessEq(v, NumberOf(range.max))
       ELSE Less(v, NumberOf(range.max))

C20_RangeSemantics ==
    pResult.done =>
        IF pArgs.range.wf /\ IsNumeral(pArgs.target)
        THEN pResult.matched <=> WithinBounds(NumberOf(pArgs.target), pArgs.range)
        ELSE ~pResult.matched

(***************************************************************************)
(* C17: for non-negative weights with total T > 0 and a draw r in [0, T),   *)
(* selectRandomResponse returns the entry i with                            *)
(* w_1 + ... + w_(i-1) <= r < w_1 + ... + w_i; so an entry of weight 0 is   *)
(* never returned, entry i is returned for exactly w_i of the T draws, and  *)
(* with weights 100 and 0 the first entry is returned for every draw.       *)
(***************************************************************************)
RECURSIVE SumTo(_, _)
SumTo(responses, i) ==
    IF i = 0 THEN 0 ELSE SumTo(responses, i - 1) + responses[i].Weight

DrawsFor(responses, i) ==
    {r \in 0..(SumTo(responses, Len(responses)) - 1) :
        selectRandomResponse(responses, r, 0) = i}

C17_CumulativeScan ==
    (pResult.done /\ SumTo(pArgs, Len(pArgs)) > 0) =>
        /\ pResult.index \in 1..Len(pArgs)
        /\ SumTo(pArgs, pResult.index - 1) <= pResult.r
        /\ pResult.r < SumTo(pArgs, pResult.index)
        /\ pArgs[pResult.index].Weight > 0
        /\ \A i \in 1..Len(pArgs) :
               Cardinality(DrawsFor(pArgs, i)) = pArgs[i].Weight

\* weights 100 and 0, the last draw: the first entry is returned
C17_Witness ==
    /\ pResult.done
    /\ Len(pArgs) = 2
    /\ pArgs[1].Weight = 100 /\ pArgs[2].Weight = 0
    /\ pResult.r = 99
    /\ pResult.index = 1

(***************************************************************************)
(* C15: for every request routed to a configured mock endpoint, selector    *)
(* extraction and rule matching complete without error for any input        *)
(* (absent header, invalid regex, malformed range), and the handler emits   *)
(* exactly one response: the synthesized response when Build succeeds, and  *)
(* a 500 error response when and only when Build fails to read the          *)
(* response file.                                                           *)
(***************************************************************************)
SelectorNames(e) == {e.Selectors[i].Name : i \in 1..Len(e.Selectors)}

\* extraction gave every selector a value; the response is the error
\* response exactly for a named file that cannot be read
C15_State ==
    /\ \A r \in Slots :
           req[r].pc # "idle" =>
               /\ DOMAIN req[r].values = SelectorNames(Endpoints[req[r].ep])
               /\ req[r].matchedRule \in 0..Len(Endpoints[req[r].ep].Rules)
    /\ \A n \in 1..Len(served) :
           served[n].kind = "mock" =>
               LET x == served[n]
                   unreadable == x.file # "" /\ x.file \notin ReadableFiles
               IN  /\ x.status \in {200, 500}
                   /\ (x.status = 500) <=> unreadable
                   /\ unreadable => x.body = <<"INTERNAL_ERROR">>
                   /\ ~unreadable => x.body = FileContent(x.file)

\* a request that ends has added exactly one response, and nothing else adds
\* a mock response
C15_Step ==
    /\ \A r \in Slots :
           (req[r].pc # "idle" /\ req'[r].pc = "idle") =>
               /\ Len(served') = Len(served) + 1
               /\ SubSeq(served', 1, Len(served)) = served
               /\ served'[Len(served')].kind = "mock"
               /\ served'[Len(served')].ep = req[r].ep
    /\ (Len(served') > Len(served) /\ served'[Len(served')].kind = "mock") =>
           \E r \in Slots : req[r].pc = "build" /\ req'[r].pc = "idle"
    /\ \A r \in Slots :
           (req[r].pc # "idle" /\ req'[r].pc # "idle") => served' = served

InlineBodyOf(e, m) ==
    IF m # 0 THEN e.Rules[m].InlineBody ELSE e.Default.InlineBody

C18_InlineBodyWins ==
    \A n \in 1..Len(served) :
        served[n].kind = "mock" =>
            LET x == served[n]
                inline == InlineBodyOf(Endpoints[x.ep], x.rule)
            IN  inline # <<>> => (x.status = 200 /\ x.body = inline)

(***************************************************************************)
(* C16: Build returns status 200 when the resolved status is unset (0) and  *)
(* the resolved status otherwise, the resolved status being that of the     *)
(* chosen entry when the specification carries a weighted-random list and   *)
(* the specification's own otherwise; it returns content type               *)
(* "application/json" when unset; and the returned header map always        *)
(* contains a Content-Type entry, equal to the resolved content type unless *)
(* the explicit headers contain Content-Type, in which case the explicit    *)
(* value, after template substitution when templating is enabled, wins.     *)
(***************************************************************************)
ExpectedContentType(cfg) ==
    IF cfg.ContentType = <<>> THEN <<"application/json">> ELSE cfg.ContentType

ContentTypeAsClaimed(cfg, res) ==
    /\ res.ContentType = ExpectedContentType(cfg)
    /\ "Content-Type" \in DOMAIN res.Headers

C16_ResolvedStatusAndContentType ==
    (pResult.done /\ ~pResult.res.err) =>
        LET cfg == pArgs
            res == pResult.res
            status == IF Len(cfg.RandomResponses) > 0
                      THEN cfg.RandomResponses[pResult.picked].StatusCode
                      ELSE cfg.StatusCode
            builtins == getBuiltinVariables(pResult.draw.uuid, pResult.draw.now)
        IN  /\ res.StatusCode = (IF status = 0 THEN 200 ELSE status)
            /\ ContentTypeAsClaimed(cfg, res)
            /\ res.Headers["Content-Type"] =
                  IF "Content-Type" \in DOMAIN cfg.Headers
                  THEN IF cfg.TemplateEnabled
                       THEN Substituted(cfg.Headers["Content-Type"], BuildValues, builtins)
                       ELSE cfg.Headers["Content-Type"]
                  ELSE ExpectedContentType(cfg)

\* a specification with status 404 and a random list whose chosen entry has
\* no status was built with status 200, and its explicit Content-Type header
\* went through the template engine
C16_Witness ==
    /\ pResult.done
    /\ ~pResult.res.err
    /\ pArgs.StatusCode = 404
    /\ Len(pArgs.RandomResponses) = 2
    /\ pResult.picked = 1
    /\ pResult.res.StatusCode = 200
    /\ pArgs.ContentType = <<"text/plain">>
    /\ pArgs.TemplateEnabled
    /\ pResult.res.Headers["Content-Type"] = <<"text/", "p", "q">>

\* the statement as made for the specification's own status and the explicit
\* header value as written
C16_StatusOfTheSpec ==
    (pResult.done /\ ~pResult.res.err) =>
        LET cfg == pArgs
            res == pResult.res
        IN  /\ res.StatusCode = (IF cfg.StatusCode = 0 THEN 200 ELSE cfg.StatusCode)
            /\ ContentTypeAsClaimed(cfg, res)
            /\ res.Headers["Content-Type"] =
                  IF "Content-Type" \in DOMAIN cfg.Headers
                  THEN cfg.Headers["Content-Type"]
                  ELSE ExpectedContentType(cfg)

(***************************************************************************)
(* C21: a range condition matches only when the range string is shaped as   *)
(* "[" or "(" followed by min, ",", max and "]" or ")": for every range      *)
(* string of length >= 5 whose first character is neither "[" nor "(" or    *)
(* whose last character is neither "]" nor ")", matchRange is false for     *)
(* every target value.                                                      *)
(***************************************************************************)
C21_ShapeRequired ==
    (/\ pResult.done
     /\ Len(pArgs.range.str) >= 5
     /\ \/ pArgs.range.first \notin {"[", "("}
        \/ pArgs.range.last \notin {"]", ")"}) => ~pResult.matched

(***************************************************************************)
(* C22: ExtractValues reads the request body at most once per call however  *)
(* many body selectors there are, never reads it when there is no body      *)
(* selector, returns a map with one entry per selector name, and maps every *)
(* absent, unparseable or unknown-type source to the empty string.          *)
(***************************************************************************)
IsBodySelector(sel) == sel.Type \in {"body", "Body"}

\* the body is a whole object: "{", members of key and value, "}"
ParsesAsObject(bytes) ==
    /\ Len(bytes) >= 2
    /\ Len(bytes) % 2 = 0
    /\ bytes[1] = "{"
    /\ bytes[Len(bytes)] = "}"
    /\ \A i \in 2..(Len(bytes) - 1) : bytes[i] \notin {"{", "}"}

\* the value of the first member with the key, "" without such a member
MemberOf(bytes, key) ==
    LET at == {i \in 2..(Len(bytes) - 2) : i % 2 = 0 /\ bytes[i] = key}
    IN  IF at = {} THEN <<>>
        ELSE <<bytes[(CHOOSE i \in at : \A j \in at : i <= j) + 1]>>

\* what a body selector gives when only whole objects have members
MemberOfWhole(bytes, key) ==
    IF ParsesAsObject(bytes) THEN MemberOf(bytes, key) ELSE <<>>

\* what a body selector gives when the members are those that stand, key and
\* value, behind an opening "{", whether or not the object is ever closed
MemberOfOpened(bytes, key) ==
    LET at == {i \in 2..(Len(bytes) - 1) :
                  i % 2 = 0 /\ bytes[i] = key /\ bytes[i + 1] # "}"}
    IN  IF bytes = <<>> \/ bytes[1] # "{" \/ at = {} THEN <<>>
        ELSE <<bytes[(CHOOSE i \in at : \A j \in at : i <= j) + 1]>>

ExpectedValue(sel, c, pathParams, Member(_, _)) ==
    CASE IsBodySelector(sel) -> Member(c.body.bytes, sel.Key)
      [] sel.Type = "header" ->
            IF sel.Key \in DOMAIN c.headers THEN c.headers[sel.Key] ELSE <<>>
      [] sel.Type = "query" ->
            IF sel.Key \in DOMAIN c.query THEN c.query[sel.Key] ELSE <<>>
      [] sel.Type = "path" ->
            IF sel.Key \in DOMAIN pathParams THEN pathParams[sel.Key]
            ELSE IF sel.Key \in DOMAIN c.params THEN c.params[sel.Key] ELSE <<>>
      [] OTHER -> <<>>

BodyReadAtMostOnce ==
    LET sels == pArgs.selectors
        bodySelectors == {i \in 1..Len(sels) : IsBodySelector(sels[i])}
    IN  /\ pResult.body.reads <= 1
        /\ (bodySelectors = {}) => pResult.body = pArgs.c.body
        /\ DOMAIN pResult.values = {sels[i].Name : i \in 1..Len(sels)}

\* every name has the value of the last selector that carries it
ValuesAre(Member(_, _)) ==
    \A i \in 1..Len(pArgs.selectors) :
        (\A j \in (i + 1)..Len(pArgs.selectors) :
              pArgs.selectors[j].Name # pArgs.selectors[i].Name) =>
            pResult.values[pArgs.selectors[i].Name] =
                ExpectedValue(pArgs.selectors[i], pArgs.c, pArgs.pathParams, Member)

Minimum(a, b) == IF a < b THEN a ELSE b

\* the n most recently recorded entries, newest first
NewestFirst(log, n) == [i \in 1..n |-> log[Len(log) + 1 - i]]

ExpectedPage(log, n, limit, offset) ==
    LET all == NewestFirst(log, Minimum(n, Len(log)))
        rest == IF offset >= Len(all) THEN <<>> ELSE SubSeq(all, offset + 1, Len(all))
    IN  IF limit > 0 THEN SubSeq(rest, 1, Minimum(limit, Len(rest))) ELSE rest

C23_CircularBuffer ==
    /\ recorder.count = Minimum(recorder.maxEntries, Len(recLog))
    /\ ListOfRecorder(recorder, 0, 0) =
           NewestFirst(recLog, Minimum(recorder.maxEntries, Len(recLog)))
    /\ recRet.kind = "count" => recRet.out = Minimum(recorder.maxEntries, Len(recLog))
    /\ recRet.kind = "list" =>
           recRet.out = ExpectedPage(recLog, recorder.maxEntries,
                                     recRet.limit, recRet.offset)

\* the buffer has overflowed, the oldest entry is gone, and a List with
\* offset and limit returned the second newest entry alone
C23_Witness ==
    /\ Len(recLog) = Capacity + 1
    /\ recorder.head = 1
    /\ recRet.kind = "list"
    /\ recRet.limit = 1
    /\ recRet.offset = 1
    /\ recRet.out = <<Capacity>>

(***************************************************************************)
(* C24: RemoveRuntimeEndpoint(i) and UpdateRuntimeEndpoint(i, ep) return     *)
(* true and remove (replace) exactly the element at index i when            *)
(* 0 <= i < number of runtime endpoints, the others keeping their order;    *)
(* for any other index they return false and leave the list as it is; and   *)
(* a slice that GetRuntimeEndpoints returned is never altered afterwards.   *)
(***************************************************************************)
RuntimeItems(c, h) == SliceItems(h, c.runtimeEndpoints)

WithoutIndex(items, i) ==
    [k \in 1..(Len(items) - 1) |-> IF k <= i THEN items[k] ELSE items[k + 1]]

C24_Step ==
    LET before == RuntimeItems(cm, heap)
        after == RuntimeItems(cm', heap')
        i == cmRet'.index
        valid == 0 <= i /\ i < Len(before)
    IN  cmOps' # cmOps =>
          /\ cmRet'.op = "Remove" =>
                IF valid THEN cmRet'.ok /\ after = WithoutIndex(before, i)
                ELSE ~cmRet'.ok /\ after = before
          /\ cmRet'.op = "Update" =>
                IF valid
                THEN cmRet'.ok /\ after = [before EXCEPT ![i + 1] = cmRet'.ep]
                ELSE ~cmRet'.ok /\ after = before

C24_HeldUnaltered ==
    \A k \in 1..Len(cmHeld) : SliceItems(heap, cmHeld[k].slice) = cmHeld[k].items

C24_RemoveAndUpdateByIndex == []C24_HeldUnaltered /\ [][C24_Step]_vars

\* the first of two runtime endpoints was removed after both had been
\* handed out: the list has one element, the slice handed out still two
C24_Witness ==
    /\ cmRet.op = "Remove"
    /\ cmRet.ok
    /\ cmRet.index = 0
    /\ Len(cmHeld) = 1
    /\ Len(cmHeld[1].items) = 2
    /\ RuntimeItems(cm, heap) = <<cmHeld[1].items[2]>>
    /\ cmHeld[1].items[1] # cmHeld[1].items[2]

(***************************************************************************)
(* C30: SetConfig leaves the runtime endpoint list and the Scenario Store    *)
(* unchanged; after any sequence of SetConfig and runtime add, update and   *)
(* remove operations GetAllEndpoints returns the current file endpoints     *)
(* followed by the current runtime endpoints, each group in its own order,  *)
(* so findEndpoint prefers a file endpoint over a runtime endpoint that     *)
(* matches the same method and path.                                        *)
(***************************************************************************)
FileEndpointsOf(c) == IF c.config = 0 THEN <<>> ELSE ConfigEndpoints(c.config)

Serves(ep, q) ==
    /\ ep.Method = "ANY" \/ EqualFold(ep.Method, q.Method)
    /\ matchPath(ep.Path, q.Path)

C30_State ==
    cmRet.op = "Lookup" =>
        LET fileEps == FileEndpointsOf(cm)
            all == cmRet.items
            q == cmRet.ep
        IN  /\ Len(all) = Len(fileEps) + Len(RuntimeItems(cm, heap))
            /\ SubSeq(all, 1, Len(fileEps)) = fileEps
            /\ SubSeq(all, Len(fileEps) + 1, Len(all)) = RuntimeItems(cm, heap)
            /\ (\E k \in 1..Len(fileEps) : Serves(fileEps[k], q)) =>
                  /\ cmRet.found \in 1..Len(fileEps)
                  /\ Serves(fileEps[cmRet.found], q)
                  /\ \A k \in 1..(cmRet.found - 1) : ~Serves(fileEps[k], q)

C30_Step ==
    (cmOps' # cmOps /\ cmRet'.op = "SetConfig") =>
        /\ RuntimeItems(cm', heap') = RuntimeItems(cm, heap)
        /\ steps' = steps

C30_FileBeforeRuntime == []C30_State /\ [][C30_Step]_vars

\* a file endpoint and a runtime endpoint serve the same request; the file
\* endpoint is the one found
C30_Witness ==
    /\ cmRet.op = "Lookup"
    /\ cm.config = 1
    /\ Len(cmRet.items) = 2
    /\ cmRet.items[2].Src = "r1"
    /\ Serves(cmRet.items[2], cmRet.ep)
    /\ cmRet.found = 1
    /\ cmRet.items[1].Src = "f1"

(***************************************************************************)
(* C25: when reloadConfig fails to load or parse the configuration file,    *)
(* the ConfigManager keeps the previously set configuration (config and     *)
(* loadedAt unchanged); the configuration is replaced only by one that was  *)
(* loaded successfully, and concurrent reloads are serialized, so that each *)
(* replacement is a whole configuration.                                    *)
(***************************************************************************)
Reloading == {t \in Reloaders : reloader[t].pc # "idle"}

C25_State ==
    /\ Cardinality(Reloading) <= 1
    /\ cm.config \in {0} \cup ValidConfigs

C25_Step ==
    /\ cm' # cm =>
          \E t \in Reloaders :
              /\ Reloading = {t}
              /\ reloader[t].pc = "set"
              /\ ~reloader[t].loaded.err
              /\ reloader[t].loaded.cfg \in ValidConfigs
              /\ cm'.config = reloader[t].loaded.cfg
              /\ cm'.loadedAt > cm.loadedAt
    /\ \A t \in Reloaders :
          (reloader[t].pc = "load" /\ reloader'[t].pc # "load"
              /\ cfgFile \notin ValidConfigs) =>
              /\ cm' = cm
              /\ reloader'[t].pc = "unlock"

PairsSet ==
    { <<calls[i].scenario, calls[i].partition>> :
        i \in {j \in 1..Len(calls) : calls[j].op = "SetStep"} }

\* C27: the key encoding is injective and reversible, also for names and
\* partition values that contain ':': two distinct pairs SetStep was called
\* with are never stored under one key, and every stored key splits into a
\* pair SetStep was called with
C27_KeyEncodingInjective ==
    /\ \A a, b \in PairsSet :
          a # b => buildKey(a[1], a[2]) # buildKey(b[1], b[2])
    /\ \A k \in DOMAIN steps : splitKey(k) \in PairsSet

(********************* C26: the handler's sequence *************************)
\* goroutine r has matched, after reading step X from the store, a rule that
\* is filtered on X and declares a next step other than X
MatchedTransitionFrom(r) ==
    /\ req[r].pc \in {"setstep", "build"}
    /\ req[r].matchedRule # 0
    /\ LET rule == Endpoints[req[r].ep].Rules[req[r].matchedRule]
       IN  /\ rule.ScenarioStep = req[r].currentStep
           /\ rule.NextStep \notin {"", rule.ScenarioStep}

\* C26: GetStep -> MatchRulesForStep -> SetStep is atomic per (scenario,
\* partition): of two requests of one scenario and one partition value that
\* are handled at once while the store holds X, at most one matches a rule
\* filtered on X with a next step other than X
C26_AtMostOneMatches ==
    \A r1, r2 \in DOMAIN req :
        (/\ r1 # r2
         /\ MatchedTransitionFrom(r1)
         /\ MatchedTransitionFrom(r2)
         /\ Endpoints[req[r1].ep].Scenario = Endpoints[req[r2].ep].Scenario
         /\ req[r1].partitionValue = req[r2].partitionValue)
        => req[r1].currentStep # req[r2].currentStep

(********************* C28: selectRandomResponse total *********************)
AllZero(responses) == \A i \in 1..Len(responses) : responses[i].Weight = 0

\* C28: on a non-empty list selectRandomResponse returns one of the list's
\* entries whatever the integer weights are (all zero, mixed, or negative
\* with a total of zero or less) and never panics; with all-zero weights the
\* entry returned is the one the uniform draw points at
C28_TotalOnNonEmptyLists ==
    (pResult.done /\ Len(pArgs) > 0) =>
        /\ ~pResult.panic
        /\ pResult.index \in 1..Len(pArgs)
        /\ AllZero(pArgs) => pResult.index = pResult.u + 1

(******************** C29: the body behind the recorder ********************)
\* what ExtractValues returns on a request whose body is what was sent
ValuesOfSent ==
    ExtractValues([headers |-> NoMap, query |-> NoMap, params |-> NoMap,
                   body |-> StreamOf(pArgs.sent)], pArgs.selectors, NoMap)

\* C29: the recording middleware does not change what the handler reads from
\* the request body: whatever the length of the body and maxBodyBytes, the
\* bytes the mock handler reads and extracts from are the bytes the client
\* sent
C29_BodyUnchangedDownstream ==
    /\ pResult.pc \in {"extract", "done"} => pResult.seen = pArgs.sent
    /\ pResult.pc = "done" => pResult.values = ValuesOfSent

====
